---- MODULE Spec2Model ----
(***************************************************************************)
(* Model of the auditdog command-explanation wrapper (the bash script with *)
(* the result cache, the retrying client, the spinner and the execution    *)
(* gate).  Strings the script manipulates character by character (the      *)
(* command line, the cache key, the answer to a prompt) are sequences of   *)
(* one-character strings.                                                  *)
(*                                                                         *)
(* Scope of Spec: one invocation after another on the same cache file,     *)
(* with no INT or TERM signal delivered.  The command handed to eval is an *)
(* external program that returns (not exit, exec or return).  Command      *)
(* lines hold no quote, backslash or glob character, which xargs, the jq   *)
(* program text of check_cache and the unquoted $COMMAND would interpret.  *)
(* The stat failure branch of manage_cache_expiration is not taken.        *)
(*                                                                         *)
(* Other specifications over the same variables: SpecKey (the key          *)
(* derivation on two command lines), SpecStore (the cache file over a      *)
(* series of invocations), SpecInsert (add_to_cache command by command in  *)
(* a process that can be killed), SpecTwin (one invocation run without and *)
(* with DEBUG), SpecSig (one invocation with INT and TERM signals),        *)
(* SpecRender (the display printed line by line), SpecTable (the event    *)
(* tables of the dashboard, rendered from what their hooks expose),        *)
(* SpecLive (one invocation under weak fairness, for termination),         *)
(* SpecShared (two invocations at once on one cache file) and SpecHook     *)
(* (the data-fetching hooks of the dashboard with overlapping requests).   *)
(* The spinner hides the cursor as soon as it is started.                  *)
(***************************************************************************)
EXTENDS Integers, Sequences, FiniteSets, TLC

(***************************************************************************)
(* Configuration block of the script.                                      *)
(***************************************************************************)
MAX_RETRIES == 5
RETRY_DELAY_INITIAL == 1
MAX_CACHE_ENTRIES == 100
CACHE_EXPIRY_DAYS == 7
SecondsPerDay == 86400

(***************************************************************************)
(* Bounds of the model.                                                    *)
(***************************************************************************)
MaxRuns == 2
MaxCmdLen == 4
MaxSessions == 4
MaxSignals == 2

(***************************************************************************)
(* Characters, in code point order (jq's sort_by orders keys by code       *)
(* point), and byte-wise comparison of strings.                            *)
(***************************************************************************)
Chars == << "\t", " ", "-", "/",
            "0", "1", "2", "3", "4", "5", "6", "7", "8", "9",
            "a", "b", "f", "k", "m", "p", "r", "t", "x" >>

Code(c) == CHOOSE i \in 1..Len(Chars) : Chars[i] = c

IsSpace(c) == c \in {" ", "\t", "\n"}

RECURSIVE StrLess(_, _)
StrLess(s, t) ==
  IF t = <<>> THEN FALSE
  ELSE IF s = <<>> THEN TRUE
  ELSE IF Head(s) = Head(t) THEN StrLess(Tail(s), Tail(t))
  ELSE Code(Head(s)) < Code(Head(t))

(***************************************************************************)
(* Shell string primitives.                                                *)
(***************************************************************************)
\* Unquoted expansion $COMMAND: split on IFS white space into words.
RECURSIVE WordSplit(_)
WordSplit(s) ==
  IF s = <<>> THEN <<>>
  ELSE IF IsSpace(Head(s)) THEN WordSplit(Tail(s))
  ELSE LET n == IF \E i \in 1..Len(s) : IsSpace(s[i])
                 THEN (CHOOSE i \in 1..Len(s) :
                         /\ IsSpace(s[i])
                         /\ \A j \in 1..(i - 1) : ~IsSpace(s[j])) - 1
                 ELSE Len(s)
       IN  <<SubSeq(s, 1, n)>> \o WordSplit(SubSeq(s, n + 1, Len(s)))

\* ${s#p}: remove the prefix p when s starts with it.
StripPrefix(s, p) ==
  IF Len(p) <= Len(s) /\ SubSeq(s, 1, Len(p)) = p
  THEN SubSeq(s, Len(p) + 1, Len(s))
  ELSE s

\* ${s## }: the pattern is one space, so at most one leading space goes.
StripOneSpace(s) ==
  IF s # <<>> /\ Head(s) = " " THEN Tail(s) ELSE s

\* tr -s '[:space:]' ' ': every white space character becomes a space and
\* runs of the resulting spaces are squeezed to one.
RECURSIVE TrSqueeze(_)
TrSqueeze(s) ==
  IF s = <<>> THEN <<>>
  ELSE LET rest == TrSqueeze(Tail(s))
       IN  IF IsSpace(Head(s))
           THEN IF rest # <<>> /\ Head(rest) = " " THEN rest ELSE <<" ">> \o rest
           ELSE <<Head(s)>> \o rest

RECURSIVE JoinWords(_)
JoinWords(ws) ==
  IF ws = <<>> THEN <<>>
  ELSE IF Len(ws) = 1 THEN ws[1]
  ELSE ws[1] \o <<" ">> \o JoinWords(Tail(ws))

\* xargs with no command: echo of the blank-separated items of its input.
Xargs(s) == JoinWords(WordSplit(s))

\* echo appends a newline to its argument.
Echo(s) == s \o <<"\n">>

(***************************************************************************)
(* COMMAND / CMD / ARGS / CACHE_KEY.                                       *)
(***************************************************************************)
CmdOf(command) ==
  LET parts == WordSplit(command) IN IF parts = <<>> THEN <<>> ELSE parts[1]

ArgsOf(command) == StripOneSpace(StripPrefix(command, CmdOf(command)))

CacheKeyOf(command) ==
  Xargs(TrSqueeze(Echo(CmdOf(command) \o ArgsOf(command))))

(***************************************************************************)
(* JSON values.  A body is what the service sent back; a document is the   *)
(* cache file's key -> record object.                                      *)
(***************************************************************************)
Required == {"command", "summary", "sections", "risk_level"}

Section1 == [title |-> "Effect", content |-> "c1"]
Section2 == [title |-> "Risk", content |-> "c2"]

\* A JSON body: top is "object" or "array"; fields are the names present.
\* jq prints null for a field that is absent.
MkBody(top, fields, summary, risk, secs) ==
  [top        |-> top,
   fields     |-> fields,
   command    |-> IF "command" \in fields THEN "cmd" ELSE "null",
   summary    |-> IF "summary" \in fields THEN summary ELSE "null",
   risk_level |-> IF "risk_level" \in fields THEN risk ELSE "null",
   sections   |-> IF "sections" \in fields THEN secs ELSE <<>>,
   detail     |-> IF "detail" \in fields THEN "bad request" ELSE "null"]

NoBody == MkBody("none", {}, "null", "null", <<>>)

\* A file: missing, zero-length ("empty"), not JSON ("text") or JSON.
MissingFile == [kind |-> "missing", body |-> NoBody]
EmptyFile == [kind |-> "empty", body |-> NoBody]
TextFile == [kind |-> "text", body |-> NoBody]
JsonFile(b) == [kind |-> "json", body |-> b]

\* Bodies that have every required field and no detail field.
ValidBodies ==
  {MkBody("object", Required, "Recursively deletes", "high", <<Section1>>),
   MkBody("object", Required, "Lists files", "minimal", <<Section1, Section2>>),
   MkBody("object", Required, "Unrated", "severe", <<>>)}

\* Bodies that are JSON but lack a required field, carry a detail field, or
\* are not an object.
InvalidBodies ==
  {MkBody("object", Required \ {f}, "Lists files", "high", <<Section1>>) : f \in Required}
    \cup {MkBody("object", {"detail"}, "null", "null", <<>>),
          MkBody("object", Required \cup {"detail"}, "Lists files", "high", <<Section1>>),
          MkBody("array", {}, "null", "null", <<>>)}

\* What one curl call can come back with: exit status and bytes received.
CurlOutcomes ==
  {[status |-> st, out |-> EmptyFile] : st \in {7, 28}}
    \cup {[status |-> 0, out |-> f] :
            f \in {EmptyFile, TextFile}
                    \cup {JsonFile(b) : b \in ValidBodies \cup InvalidBodies}}

\* curl ... > "$TEMP_RESPONSE" 2>&1: with -v (DEBUG) the connection trace that
\* curl prints on stderr lands in the same file as the body; with -s alone
\* nothing is printed on stderr.
CurlWrites(debug, outcome) == IF debug THEN TextFile ELSE outcome.out

(***************************************************************************)
(* Response classification of the retry loop.                              *)
(***************************************************************************)
JqParses(f) == f.kind = "json"

JqHas(f, name) == JqParses(f) /\ f.body.top = "object" /\ name \in f.body.fields

\* Variant: the check for the four required fields left out.
ClassifyLax(status, f) ==
  IF status # 0 THEN "curl_error"
  ELSE IF f.kind = "empty" THEN "empty"
  ELSE IF ~JqParses(f) THEN "invalid_json"
  ELSE IF JqHas(f, "detail") THEN "api_error"
  ELSE "ok"

Classify(status, f) ==
  IF status # 0 THEN "curl_error"
  ELSE IF f.kind = "empty" THEN "empty"
  ELSE IF ~JqParses(f) THEN "invalid_json"
  ELSE IF JqHas(f, "detail") THEN "api_error"
  ELSE IF ~(\A name \in Required : JqHas(f, name)) THEN "incomplete"
  ELSE "ok"

(***************************************************************************)
(* The cache file.  doc is the key -> record object when the file holds    *)
(* JSON; a zero-length file has kind "empty".                              *)
(***************************************************************************)
EmptyDoc == [k \in {} |-> NoBody]

MissingCache == [kind |-> "missing", doc |-> EmptyDoc]
BlankCache == [kind |-> "empty", doc |-> EmptyDoc]
JsonCache(d) == [kind |-> "json", doc |-> d]

ExpirySeconds == CACHE_EXPIRY_DAYS * SecondsPerDay

\* Variant: the age test with -ge in place of -gt.
ManageCacheExpirationAtLimit(file, mtime, t) ==
  IF file.kind = "missing" THEN [file |-> JsonCache(EmptyDoc), mtime |-> t]
  ELSE IF t - mtime >= ExpirySeconds THEN [file |-> JsonCache(EmptyDoc), mtime |-> t]
  ELSE [file |-> file, mtime |-> mtime]

\* manage_cache_expiration: the file and its modification time afterwards.
ManageCacheExpiration(file, mtime, t) ==
  IF file.kind = "missing" THEN [file |-> JsonCache(EmptyDoc), mtime |-> t]
  ELSE IF t - mtime > ExpirySeconds THEN [file |-> JsonCache(EmptyDoc), mtime |-> t]
  ELSE [file |-> file, mtime |-> mtime]

\* check_cache: jq -e ".[\"$cmd_key\"]" succeeds when the key holds a value
\* other than null or false.
CheckCache(file, key) == file.kind = "json" /\ key \in DOMAIN file.doc

\* get_from_cache: jq ".[\"$cmd_key\"]" "$CACHE_FILE" > "$TEMP_RESPONSE".
GetFromCache(file, key) ==
  IF file.kind # "json" THEN EmptyFile
  ELSE IF key \in DOMAIN file.doc THEN JsonFile(file.doc[key])
  ELSE JsonFile(MkBody("null", {}, "null", "null", <<>>))

SmallestKey(keys) == CHOOSE k \in keys : \A o \in keys : o = k \/ StrLess(k, o)

\* Variant: the slice .[:-1], which drops the entry with the largest key.
DropLargest(d) ==
  IF DOMAIN d = {} THEN d
  ELSE LET last == CHOOSE k \in DOMAIN d : \A o \in DOMAIN d : o = k \/ StrLess(o, k)
       IN  [k \in DOMAIN d \ {last} |-> d[k]]

\* to_entries | sort_by(.key) | .[1:] | from_entries
DropSmallest(d) ==
  IF DOMAIN d = {} THEN d
  ELSE [k \in DOMAIN d \ {SmallestKey(DOMAIN d)} |-> d[k]]

\* jq --arg key K --slurpfile content TEMP_RESPONSE '.[$key] = $content[0]'
\* CACHE_FILE > tmp: nothing is written when either input is not JSON.
JqAssign(file, key, content) ==
  IF file.kind = "json" /\ content.kind = "json"
  THEN JsonCache([k \in DOMAIN file.doc \cup {key} |->
                    IF k = key THEN content.body ELSE file.doc[k]])
  ELSE BlankCache

\* add_to_cache: the cache file afterwards.
AddToCache(file, key, content) ==
  LET tmp == JqAssign(file, key, content)
  IN  IF tmp.kind = "json" /\ Cardinality(DOMAIN tmp.doc) > MAX_CACHE_ENTRIES
      THEN JsonCache(DropSmallest(tmp.doc))
      ELSE tmp

(***************************************************************************)
(* Prompts and rendering.                                                  *)
(***************************************************************************)
\* read -r CONFIRM: one line of input, leading and trailing IFS white space
\* removed; at end of input the variable holds what was read so far.
RECURSIVE TrimLeft(_)
TrimLeft(s) == IF s # <<>> /\ IsSpace(Head(s)) THEN TrimLeft(Tail(s)) ELSE s

RECURSIVE TrimRight(_)
TrimRight(s) ==
  IF s # <<>> /\ IsSpace(s[Len(s)]) THEN TrimRight(SubSeq(s, 1, Len(s) - 1)) ELSE s

ReadLine(input) == TrimRight(TrimLeft(input.text))

\* Variant: the failure prompt treated like the [Y/n] prompt, where an empty
\* answer means yes.
SaysYesByDefault(confirm) == confirm = <<>> \/ confirm = <<"y">> \/ confirm = <<"Y">>

\* [[ "$CONFIRM" == "y" || "$CONFIRM" == "Y" ]]
SaysYes(confirm) == confirm = <<"y">> \/ confirm = <<"Y">>

\* Variant: the pattern without its end anchor, ^[nN].
SaysNoUnanchored(confirm) == confirm # <<>> /\ confirm[1] \in {"n", "N"}

\* [[ "$CONFIRM" =~ ^[nN]$ ]]
SaysNo(confirm) == Len(confirm) = 1 /\ confirm[1] \in {"n", "N"}

\* case "$RISK_LEVEL" in ... esac
\* Variant: no banner of its own for the level minimal.
BannerWithoutMinimal(level) ==
  CASE level = "critical" -> "RISK LEVEL: CRITICAL"
    [] level = "high" -> "RISK LEVEL: HIGH"
    [] level = "medium" -> "RISK LEVEL: MEDIUM"
    [] level = "low" -> "RISK LEVEL: LOW"
    [] OTHER -> "RISK LEVEL: UNKNOWN"

Banner(level) ==
  CASE level = "critical" -> "RISK LEVEL: CRITICAL"
    [] level = "high" -> "RISK LEVEL: HIGH"
    [] level = "medium" -> "RISK LEVEL: MEDIUM"
    [] level = "low" -> "RISK LEVEL: LOW"
    [] level = "minimal" -> "RISK LEVEL: MINIMAL"
    [] OTHER -> "RISK LEVEL: UNKNOWN"

\* jq -r '.name' "$TEMP_RESPONSE": empty when the file cannot be parsed.
JqField(f, name) ==
  IF ~JqParses(f) \/ f.body.top # "object" THEN ""
  ELSE CASE name = "summary" -> f.body.summary
         [] name = "risk_level" -> f.body.risk_level
         [] OTHER -> "null"

JqSections(f) == IF JqParses(f) /\ f.body.top = "object" THEN f.body.sections ELSE <<>>

(***************************************************************************)
(* Inputs of an invocation.                                                *)
(***************************************************************************)
RECURSIVE SeqsUpTo(_, _)
SeqsUpTo(S, n) ==
  IF n = 0 THEN {<<>>}
  ELSE LET shorter == SeqsUpTo(S, n - 1)
       IN  shorter \cup {Append(s, c) : s \in shorter, c \in S}

RECURSIVE SumOf(_)
SumOf(s) == IF s = <<>> THEN 0 ELSE Head(s) + SumOf(Tail(s))

RmCommand == <<"r", "m", " ", "-", "r", "f", " ", "/", "t", "m", "p", "/", "x">>

\* Command lines as "$@" delivers them: short ones over two letters and a
\* space, and the rm command of the scenarios.
Commands == SeqsUpTo({"a", "b", " "}, MaxCmdLen) \cup {RmCommand}

\* The command lines the invocations of the session model are run with.
Invocations == {RmCommand, <<"a">>, <<"a", " ", "b">>}

\* What the user types at a prompt: a line, or end of input after some text.
Inputs ==
  {[eof |-> FALSE, text |-> t] :
     t \in {<<>>, <<"n">>, <<"N">>, <<"y">>, <<"Y">>, <<" ", "n">>, <<"y", " ">>,
            <<"n", "o">>, <<"y", "e", "s">>}}
    \cup {[eof |-> TRUE, text |-> t] : t \in {<<>>, <<"n">>}}

Digits == {"0", "1", "2", "3", "4", "5", "6", "7", "8", "9"}

HighRecord == MkBody("object", Required, "Recursively deletes", "high", <<Section1>>)
LowRecord == MkBody("object", Required, "Stored earlier", "low", <<Section2>>)

\* A store that holds MAX_CACHE_ENTRIES entries under the keys k00..k99
\* (as many as fit), every one with the same record.
FullDoc ==
  LET keys == {<<"k", a, b>> : a \in Digits, b \in Digits}
      kept == {k \in keys : 10 * (Code(k[2]) - Code("0")) + (Code(k[3]) - Code("0"))
                              < MAX_CACHE_ENTRIES}
  IN  [k \in kept |-> LowRecord]

SmallDoc == [k \in {<<"a", "b">>, <<"a">>} |-> LowRecord]

InitialCaches ==
  {MissingCache, BlankCache, JsonCache(EmptyDoc), JsonCache(SmallDoc), JsonCache(FullDoc)}

\* Time that can pass between two invocations.
Gaps == {0, ExpirySeconds, ExpirySeconds + 1}

(***************************************************************************)
(* State.                                                                  *)
(***************************************************************************)
VARIABLES
  pc,            \* position of the script
  run,           \* number of the invocation
  now,           \* date +%s
  cacheFile,     \* $CACHE_FILE
  cacheMtime,    \* its modification time
  COMMAND, DEBUG, CMD, ARGS, CACHE_KEY,
  TEMP_JSON, TEMP_RESPONSE,
  SPINNER_PID,   \* 0 stands for the empty string
  spinners,      \* spinner processes alive
  cursorHidden,
  RETRY_COUNT, RETRY_DELAY, CURL_STATUS, SUCCESS, CACHE_HIT, CONFIRM,
  exitCode,      \* -1 while the script runs
  \* history of the invocation
  attempts,      \* curl calls made
  delays,        \* durations slept, in order
  executed,      \* strings handed to eval, in order
  prompts,       \* prompts answered, in order
  rendered,      \* explanations displayed, in order
  inserts,       \* add_to_cache calls made
  errorsShown,   \* "Failed to get command explanation" messages printed
  fetched,       \* responses that passed validation, in order
  storeAtStart,  \* the cache file and its time when the script started
  storeAtCheck,  \* the cache file and its time when check_cache ran
  \* the key derivation on its own
  left, right,   \* two command lines
  leftKey, rightKey,
  \* the cache file over many invocations
  lastTouch,     \* time of the last hit or insertion
  longestGap,    \* longest time between two consecutive hits or insertions
  lookedUp,      \* keys looked up so far
  \* add_to_cache step by step
  tmp_cache_file,
  \* one invocation run without and with DEBUG
  script,        \* what the API answers to the first, second, ... request
  first,         \* what the run without DEBUG did
  \* signal delivery
  signals,       \* INT and TERM signals delivered so far
  interrupted,   \* attempts made when a signal first came during curl or sleep, or -1
  \* the display, line by line
  screen,        \* the lines printed by the display of the explanation
  \* the event tables of the dashboard
  table,         \* which of the four tables is mounted
  events,        \* events the table's hook exposes
  loading,       \* loading flag the hook exposes
  error,         \* error the hook exposes: Null or a message
  view,          \* what the component has rendered
  \* the data-fetching hooks
  pending,       \* fetches in flight
  issued,        \* number of fetches started so far
  settled,       \* the fetches that settled, in the order they settled
  \* two invocations on one cache file
  procs          \* position, key and scratch file of each invocation

fileVars == <<cacheFile, cacheMtime>>
inputVars == <<COMMAND, DEBUG>>
keyVars == <<CMD, ARGS, CACHE_KEY>>
tempVars == <<TEMP_JSON, TEMP_RESPONSE>>
spinVars == <<SPINNER_PID, spinners, cursorHidden>>
loopVars == <<RETRY_COUNT, RETRY_DELAY, CURL_STATUS>>
flagVars == <<SUCCESS, CACHE_HIT>>
histVars == <<attempts, delays, executed, prompts, rendered, inserts, errorsShown,
              fetched, storeAtStart, storeAtCheck>>
pairVars == <<left, right, leftKey, rightKey>>
storeVars == <<lastTouch, longestGap, lookedUp>>
insertVars == <<tmp_cache_file>>
twinVars == <<script, first>>
sigVars == <<signals, interrupted>>
tableVars == <<table, events, loading, error, view>>
hookVars == <<pending, issued, settled>>
uiVars == <<screen, tableVars, hookVars, procs>>
otherVars == <<pairVars, storeVars, insertVars, twinVars, sigVars, uiVars>>

vars == <<pc, run, now, fileVars, inputVars, keyVars, tempVars, spinVars, loopVars,
          flagVars, CONFIRM, exitCode, histVars, otherVars>>

(***************************************************************************)
(* Progress indicator.                                                     *)
(***************************************************************************)
Spin(pid, alive, hidden) == [pid |-> pid, alive |-> alive, hidden |-> hidden]

\* start_spinner: spinner "$msg" & ; SPINNER_PID=$!  (the spinner hides the
\* cursor).
StartSpinner(sp) ==
  LET p == CHOOSE q \in 1..(Cardinality(sp.alive) + 1) : q \notin sp.alive
  IN  Spin(p, sp.alive \cup {p}, TRUE)

\* Variant: stop_spinner without its tput cnorm.
StopSpinnerLeavesCursor(sp) ==
  IF sp.pid # 0 /\ sp.pid \in sp.alive
  THEN Spin(0, sp.alive \ {sp.pid}, sp.hidden)
  ELSE sp

\* stop_spinner: kill the recorded process, if there is one and it is alive.
StopSpinner(sp) ==
  IF sp.pid # 0 /\ sp.pid \in sp.alive
  THEN Spin(0, sp.alive \ {sp.pid}, FALSE)
  ELSE sp

CurrentSpin == Spin(SPINNER_PID, spinners, cursorHidden)

SetSpin(sp) ==
  /\ SPINNER_PID' = sp.pid
  /\ spinners' = sp.alive
  /\ cursorHidden' = sp.hidden

(***************************************************************************)
(* Initial state: the script has been started, nothing has run yet.        *)
(***************************************************************************)
\* The variables of the other specifications, when they are not in use.
PairIdle == left = <<>> /\ right = <<>> /\ leftKey = <<>> /\ rightKey = <<>>

StoreIdle == lastTouch = 0 /\ longestGap = 0 /\ lookedUp = {}

InsertIdle == tmp_cache_file = MissingCache

NoRun == [attempts |-> 0, inserts |-> 0, fetched |-> <<>>, exitCode |-> -1,
          input |-> [eof |-> FALSE, text |-> <<>>]]

TwinIdle == script = <<>> /\ first = NoRun

SigIdle == signals = 0 /\ interrupted = -1

ScreenIdle == screen = <<>>

HookIdle == pending = {} /\ issued = 0 /\ settled = <<>>

SharedIdle == procs = <<>>

TableIdle ==
  /\ table = "none" /\ events = <<>> /\ loading = FALSE /\ error = "null"
  /\ view = <<>>

\* A process that has run nothing yet.
ProcessAtRest ==
  /\ CMD = <<>> /\ ARGS = <<>> /\ CACHE_KEY = <<>>
  /\ TEMP_JSON = "missing" /\ TEMP_RESPONSE = MissingFile
  /\ SPINNER_PID = 0 /\ spinners = {} /\ cursorHidden = FALSE
  /\ RETRY_COUNT = 0 /\ RETRY_DELAY = RETRY_DELAY_INITIAL /\ CURL_STATUS = 0
  /\ SUCCESS = FALSE /\ CACHE_HIT = FALSE /\ CONFIRM = <<>>
  /\ exitCode = -1
  /\ attempts = 0 /\ delays = <<>> /\ executed = <<>> /\ prompts = <<>>
  /\ rendered = <<>> /\ inserts = 0 /\ errorsShown = 0 /\ fetched = <<>>
  /\ storeAtCheck = [file |-> MissingCache, mtime |-> 0]

FreshProcess ==
  /\ pc' = "start"
  /\ CMD' = <<>> /\ ARGS' = <<>> /\ CACHE_KEY' = <<>>
  /\ TEMP_JSON' = "missing" /\ TEMP_RESPONSE' = MissingFile
  /\ SPINNER_PID' = 0 /\ spinners' = {} /\ cursorHidden' = FALSE
  /\ RETRY_COUNT' = 0 /\ RETRY_DELAY' = RETRY_DELAY_INITIAL /\ CURL_STATUS' = 0
  /\ SUCCESS' = FALSE /\ CACHE_HIT' = FALSE /\ CONFIRM' = <<>>
  /\ exitCode' = -1
  /\ attempts' = 0 /\ delays' = <<>> /\ executed' = <<>> /\ prompts' = <<>>
  /\ rendered' = <<>> /\ inserts' = 0 /\ errorsShown' = 0 /\ fetched' = <<>>
  /\ storeAtCheck' = [file |-> MissingCache, mtime |-> 0]

Init ==
  /\ pc = "start"
  /\ run = 1
  /\ cacheFile \in InitialCaches
  /\ cacheMtime = 0
  /\ now \in Gaps
  /\ COMMAND \in Invocations
  /\ DEBUG \in BOOLEAN
  /\ CMD = <<>> /\ ARGS = <<>> /\ CACHE_KEY = <<>>
  /\ TEMP_JSON = "missing" /\ TEMP_RESPONSE = MissingFile
  /\ SPINNER_PID = 0 /\ spinners = {} /\ cursorHidden = FALSE
  /\ RETRY_COUNT = 0 /\ RETRY_DELAY = RETRY_DELAY_INITIAL /\ CURL_STATUS = 0
  /\ SUCCESS = FALSE /\ CACHE_HIT = FALSE /\ CONFIRM = <<>>
  /\ exitCode = -1
  /\ attempts = 0 /\ delays = <<>> /\ executed = <<>> /\ prompts = <<>>
  /\ rendered = <<>> /\ inserts = 0 /\ errorsShown = 0 /\ fetched = <<>>
  /\ storeAtStart = [file |-> cacheFile, mtime |-> cacheMtime]
  /\ storeAtCheck = [file |-> MissingCache, mtime |-> 0]
  /\ PairIdle /\ StoreIdle /\ InsertIdle /\ TwinIdle /\ SigIdle /\ ScreenIdle /\ TableIdle
  /\ HookIdle /\ SharedIdle

(***************************************************************************)
(* The script, step by step.                                               *)
(***************************************************************************)
\* mkdir -p; trap; manage_cache_expiration
Startup ==
  /\ pc = "start"
  /\ LET m == ManageCacheExpiration(cacheFile, cacheMtime, now)
     IN  cacheFile' = m.file /\ cacheMtime' = m.mtime
  /\ pc' = "parse"
  /\ UNCHANGED <<otherVars, run, now, inputVars, keyVars, tempVars, spinVars, loopVars, flagVars,
                 CONFIRM, exitCode, histVars>>

\* COMMAND_PARTS, CMD, ARGS, CACHE_KEY; the two mktemp calls
ParseCommand ==
  /\ pc = "parse"
  /\ CMD' = CmdOf(COMMAND)
  /\ ARGS' = ArgsOf(COMMAND)
  /\ CACHE_KEY' = CacheKeyOf(COMMAND)
  /\ TEMP_JSON' = "empty"
  /\ TEMP_RESPONSE' = EmptyFile
  /\ pc' = "check"
  /\ UNCHANGED <<otherVars, run, now, fileVars, inputVars, spinVars, loopVars, flagVars,
                 CONFIRM, exitCode, histVars>>

\* if check_cache "$CACHE_KEY"
CacheCheck ==
  /\ pc = "check"
  /\ pc' = IF CheckCache(cacheFile, CACHE_KEY) THEN "hit" ELSE "miss"
  /\ storeAtCheck' = [file |-> cacheFile, mtime |-> cacheMtime]
  /\ UNCHANGED <<otherVars, run, now, fileVars, inputVars, keyVars, tempVars, spinVars, loopVars,
                 flagVars, CONFIRM, exitCode, attempts, delays, executed, prompts,
                 rendered, inserts, errorsShown, fetched, storeAtStart>>

\* Variant: get_from_cache without the touch.
CacheHitWithoutTouch ==
  /\ pc = "hit"
  /\ TEMP_RESPONSE' = GetFromCache(cacheFile, CACHE_KEY)
  /\ SetSpin(StopSpinner(StartSpinner(CurrentSpin)))
  /\ SUCCESS' = TRUE
  /\ CACHE_HIT' = TRUE
  /\ pc' = "after"
  /\ UNCHANGED <<otherVars, run, now, fileVars, inputVars, keyVars, TEMP_JSON, loopVars,
                 CONFIRM, exitCode, histVars>>

\* start_spinner; get_from_cache (jq, touch); stop_spinner; SUCCESS, CACHE_HIT
CacheHit ==
  /\ pc = "hit"
  /\ TEMP_RESPONSE' = GetFromCache(cacheFile, CACHE_KEY)
  /\ cacheMtime' = now
  /\ SetSpin(StopSpinner(StartSpinner(CurrentSpin)))
  /\ SUCCESS' = TRUE
  /\ CACHE_HIT' = TRUE
  /\ pc' = "after"
  /\ UNCHANGED <<otherVars, run, now, cacheFile, inputVars, keyVars, TEMP_JSON, loopVars,
                 CONFIRM, exitCode, histVars>>

\* Variant: the cache file touched on a miss as well.
CacheMissTouches ==
  /\ pc = "miss"
  /\ cacheMtime' = now
  /\ CACHE_HIT' = FALSE
  /\ TEMP_JSON' = "payload"
  /\ RETRY_COUNT' = 0
  /\ SUCCESS' = FALSE
  /\ pc' = "loop"
  /\ UNCHANGED <<otherVars, run, now, cacheFile, inputVars, keyVars, TEMP_RESPONSE,
                 spinVars, RETRY_DELAY, CURL_STATUS, CONFIRM, exitCode, histVars>>

\* CACHE_HIT=false; the request payload; RETRY_COUNT=0; SUCCESS=false
CacheMiss ==
  /\ pc = "miss"
  /\ CACHE_HIT' = FALSE
  /\ TEMP_JSON' = "payload"
  /\ RETRY_COUNT' = 0
  /\ SUCCESS' = FALSE
  /\ pc' = "loop"
  /\ UNCHANGED <<otherVars, run, now, fileVars, inputVars, keyVars, TEMP_RESPONSE, spinVars,
                 RETRY_DELAY, CURL_STATUS, CONFIRM, exitCode, histVars>>

\* Variant: the loop test with -le in place of -lt.
LoopTestOffByOne ==
  /\ pc = "loop"
  /\ pc' = IF RETRY_COUNT <= MAX_RETRIES
           THEN (IF RETRY_COUNT > 0 THEN "backoff" ELSE "attempt")
           ELSE "after"
  /\ UNCHANGED <<otherVars, run, now, fileVars, inputVars, keyVars, tempVars, spinVars,
                 loopVars, flagVars, CONFIRM, exitCode, histVars>>

\* while [ $RETRY_COUNT -lt $MAX_RETRIES ]
LoopTest ==
  /\ pc = "loop"
  /\ pc' = IF RETRY_COUNT < MAX_RETRIES
           THEN (IF RETRY_COUNT > 0 THEN "backoff" ELSE "attempt")
           ELSE "after"
  /\ UNCHANGED <<otherVars, run, now, fileVars, inputVars, keyVars, tempVars, spinVars, loopVars,
                 flagVars, CONFIRM, exitCode, histVars>>

\* Variant: the delay doubled before the sleep instead of after it.
BackoffDoublesFirst ==
  /\ pc = "backoff"
  /\ SetSpin(StopSpinner(CurrentSpin))
  /\ RETRY_DELAY' = RETRY_DELAY * 2
  /\ now' = now + RETRY_DELAY'
  /\ delays' = Append(delays, RETRY_DELAY')
  /\ pc' = "attempt"
  /\ UNCHANGED <<otherVars, run, fileVars, inputVars, keyVars, tempVars, RETRY_COUNT,
                 CURL_STATUS, flagVars, CONFIRM, exitCode, attempts, executed, prompts,
                 rendered, inserts, errorsShown, fetched, storeAtStart, storeAtCheck>>

\* stop_spinner; sleep $RETRY_DELAY; RETRY_DELAY=$((RETRY_DELAY * 2))
Backoff ==
  /\ pc = "backoff"
  /\ SetSpin(StopSpinner(CurrentSpin))
  /\ now' = now + RETRY_DELAY
  /\ delays' = Append(delays, RETRY_DELAY)
  /\ RETRY_DELAY' = RETRY_DELAY * 2
  /\ pc' = "attempt"
  /\ UNCHANGED <<otherVars, run, fileVars, inputVars, keyVars, tempVars, RETRY_COUNT, CURL_STATUS,
                 flagVars, CONFIRM, exitCode, attempts, executed, prompts, rendered,
                 inserts, errorsShown, fetched, storeAtStart, storeAtCheck>>

\* The spinner around one curl call: started, stopped and restarted around
\* the call when DEBUG is set, and stopped after it.
SpinAroundCurl(sp, debug) ==
  IF debug
  THEN StopSpinner(StartSpinner(StopSpinner(StartSpinner(sp))))
  ELSE StopSpinner(StartSpinner(sp))

\* start_spinner; curl > "$TEMP_RESPONSE" 2>&1; CURL_STATUS=$?; stop_spinner
Attempt ==
  /\ pc = "attempt"
  /\ \E o \in CurlOutcomes :
       /\ TEMP_RESPONSE' = CurlWrites(DEBUG, o)
       /\ CURL_STATUS' = o.status
  /\ SetSpin(SpinAroundCurl(CurrentSpin, DEBUG))
  /\ attempts' = attempts + 1
  /\ pc' = "classify"
  /\ UNCHANGED <<otherVars, run, now, fileVars, inputVars, keyVars, TEMP_JSON, RETRY_COUNT,
                 RETRY_DELAY, flagVars, CONFIRM, exitCode, delays, executed, prompts,
                 rendered, inserts, errorsShown, fetched, storeAtStart, storeAtCheck>>

\* Variant: a failed attempt retried without being counted.
AttemptFailedUncounted ==
  /\ pc = "classify"
  /\ Classify(CURL_STATUS, TEMP_RESPONSE) # "ok"
  /\ pc' = "loop"
  /\ UNCHANGED <<otherVars, run, now, fileVars, inputVars, keyVars, tempVars, spinVars,
                 loopVars, flagVars, CONFIRM, exitCode, histVars>>

\* One of the five checks fails: RETRY_COUNT=$((RETRY_COUNT + 1)); continue
AttemptFailed ==
  /\ pc = "classify"
  /\ Classify(CURL_STATUS, TEMP_RESPONSE) # "ok"
  /\ RETRY_COUNT' = RETRY_COUNT + 1
  /\ pc' = "loop"
  /\ UNCHANGED <<otherVars, run, now, fileVars, inputVars, keyVars, tempVars, spinVars,
                 RETRY_DELAY, CURL_STATUS, flagVars, CONFIRM, exitCode, histVars>>

\* Variant: a failed cache write ends the script with status 1.
AttemptSucceededStrict ==
  /\ pc = "classify"
  /\ Classify(CURL_STATUS, TEMP_RESPONSE) = "ok"
  /\ cacheFile' = AddToCache(cacheFile, CACHE_KEY, TEMP_RESPONSE)
  /\ cacheMtime' = now
  /\ SetSpin(StopSpinner(StartSpinner(CurrentSpin)))
  /\ SUCCESS' = TRUE
  /\ inserts' = inserts + 1
  /\ fetched' = Append(fetched, TEMP_RESPONSE.body)
  /\ pc' = IF cacheFile'.kind = "json" THEN "after" ELSE "exit1"
  /\ UNCHANGED <<otherVars, run, now, inputVars, keyVars, tempVars, loopVars, CACHE_HIT,
                 CONFIRM, exitCode, attempts, delays, executed, prompts, rendered,
                 errorsShown, storeAtStart, storeAtCheck>>

\* Variant: the loop not left after the successful attempt.
AttemptSucceededNoBreak ==
  /\ pc = "classify"
  /\ Classify(CURL_STATUS, TEMP_RESPONSE) = "ok"
  /\ cacheFile' = AddToCache(cacheFile, CACHE_KEY, TEMP_RESPONSE)
  /\ cacheMtime' = now
  /\ SetSpin(StopSpinner(StartSpinner(CurrentSpin)))
  /\ SUCCESS' = TRUE
  /\ inserts' = inserts + 1
  /\ fetched' = Append(fetched, TEMP_RESPONSE.body)
  /\ RETRY_COUNT' = RETRY_COUNT + 1
  /\ pc' = "loop"
  /\ UNCHANGED <<otherVars, run, now, inputVars, keyVars, tempVars, RETRY_DELAY, CURL_STATUS,
                 CACHE_HIT, CONFIRM, exitCode, attempts, delays, executed, prompts,
                 rendered, errorsShown, storeAtStart, storeAtCheck>>

\* All checks pass: start_spinner; add_to_cache; stop_spinner; SUCCESS=true;
\* break
AttemptSucceeded ==
  /\ pc = "classify"
  /\ Classify(CURL_STATUS, TEMP_RESPONSE) = "ok"
  /\ cacheFile' = AddToCache(cacheFile, CACHE_KEY, TEMP_RESPONSE)
  /\ cacheMtime' = now
  /\ SetSpin(StopSpinner(StartSpinner(CurrentSpin)))
  /\ SUCCESS' = TRUE
  /\ inserts' = inserts + 1
  /\ fetched' = Append(fetched, TEMP_RESPONSE.body)
  /\ pc' = "after"
  /\ UNCHANGED <<otherVars, run, now, inputVars, keyVars, tempVars, loopVars, CACHE_HIT,
                 CONFIRM, exitCode, attempts, delays, executed, prompts, rendered,
                 errorsShown, storeAtStart, storeAtCheck>>

\* Variant: the command run as soon as the explanation is there, without the
\* display and the [Y/n] prompt.
AfterLoopUngated ==
  /\ pc = "after"
  /\ pc' = IF SUCCESS THEN "execute" ELSE "failed"
  /\ UNCHANGED <<otherVars, run, now, fileVars, inputVars, keyVars, tempVars, spinVars,
                 loopVars, flagVars, CONFIRM, exitCode, histVars>>

\* if [ "$SUCCESS" = false ]
AfterLoop ==
  /\ pc = "after"
  /\ pc' = IF SUCCESS THEN "render" ELSE "failed"
  /\ UNCHANGED <<otherVars, run, now, fileVars, inputVars, keyVars, tempVars, spinVars, loopVars,
                 flagVars, CONFIRM, exitCode, histVars>>

\* The error line, the [y/N] prompt and read -r CONFIRM
RunAnywayPrompt ==
  /\ pc = "failed"
  /\ errorsShown' = errorsShown + 1
  /\ \E input \in Inputs :
       /\ CONFIRM' = ReadLine(input)
       /\ prompts' = Append(prompts, [prompt |-> "run-anyway", input |-> input])
       /\ pc' = IF SaysYes(ReadLine(input)) THEN "run-anyway" ELSE "exit1"
  /\ UNCHANGED <<otherVars, run, now, fileVars, inputVars, keyVars, tempVars, spinVars, loopVars,
                 flagVars, exitCode, attempts, delays, executed, rendered, inserts,
                 fetched, storeAtStart, storeAtCheck>>

\* Variant: the failure branch falling through to the exit 0 at the end of the
\* script once the command has run.
RunAnywayExitsZero ==
  /\ pc = "run-anyway"
  /\ executed' = Append(executed, COMMAND)
  /\ pc' = "exit0"
  /\ UNCHANGED <<otherVars, run, now, fileVars, inputVars, keyVars, tempVars, spinVars,
                 loopVars, flagVars, CONFIRM, exitCode, attempts, delays, prompts,
                 rendered, inserts, errorsShown, fetched, storeAtStart, storeAtCheck>>

\* eval "$COMMAND" of the failure branch
RunAnyway ==
  /\ pc = "run-anyway"
  /\ executed' = Append(executed, COMMAND)
  /\ pc' = "exit1"
  /\ UNCHANGED <<otherVars, run, now, fileVars, inputVars, keyVars, tempVars, spinVars, loopVars,
                 flagVars, CONFIRM, exitCode, attempts, delays, prompts, rendered,
                 inserts, errorsShown, fetched, storeAtStart, storeAtCheck>>

\* cleanup, run by the EXIT trap: stop_spinner; rm -f the scratch files;
\* tput cnorm
Cleanup ==
  /\ LET sp == StopSpinner(CurrentSpin)
     IN  SetSpin(Spin(sp.pid, sp.alive, FALSE))
  /\ TEMP_JSON' = "missing"
  /\ TEMP_RESPONSE' = MissingFile

\* Variant: exit 1 without the EXIT trap.
ExitFailureNoTrap ==
  /\ pc = "exit1"
  /\ exitCode' = 1
  /\ pc' = "done"
  /\ UNCHANGED <<otherVars, run, now, fileVars, inputVars, keyVars, tempVars, spinVars,
                 loopVars, flagVars, CONFIRM, histVars>>

\* exit 1
ExitFailure ==
  /\ pc = "exit1"
  /\ exitCode' = 1
  /\ Cleanup
  /\ pc' = "done"
  /\ UNCHANGED <<otherVars, run, now, fileVars, inputVars, keyVars, loopVars, flagVars, CONFIRM,
                 histVars>>

\* SUMMARY, RISK_LEVEL, the header, the banner and the sections
Render ==
  /\ pc = "render"
  /\ rendered' = Append(rendered,
       [command  |-> COMMAND,
        cached   |-> CACHE_HIT,
        summary  |-> JqField(TEMP_RESPONSE, "summary"),
        banner   |-> Banner(JqField(TEMP_RESPONSE, "risk_level")),
        sections |-> JqSections(TEMP_RESPONSE)])
  /\ pc' = "confirm"
  /\ UNCHANGED <<otherVars, run, now, fileVars, inputVars, keyVars, tempVars, spinVars, loopVars,
                 flagVars, CONFIRM, exitCode, attempts, delays, executed, prompts,
                 inserts, errorsShown, fetched, storeAtStart, storeAtCheck>>

\* The [Y/n] prompt and read -r CONFIRM
ConfirmExecute ==
  /\ pc = "confirm"
  /\ \E input \in Inputs :
       /\ CONFIRM' = ReadLine(input)
       /\ prompts' = Append(prompts, [prompt |-> "execute", input |-> input])
       /\ pc' = IF ~SaysNo(ReadLine(input)) THEN "execute" ELSE "exit0"
  /\ UNCHANGED <<otherVars, run, now, fileVars, inputVars, keyVars, tempVars, spinVars, loopVars,
                 flagVars, exitCode, attempts, delays, executed, rendered, inserts,
                 errorsShown, fetched, storeAtStart, storeAtCheck>>

\* Variant: the normalized cache key handed to eval instead of the command.
ExecuteKey ==
  /\ pc = "execute"
  /\ executed' = Append(executed, CACHE_KEY)
  /\ pc' = "exit0"
  /\ UNCHANGED <<otherVars, run, now, fileVars, inputVars, keyVars, tempVars, spinVars, loopVars,
                 flagVars, CONFIRM, exitCode, attempts, delays, prompts, rendered,
                 inserts, errorsShown, fetched, storeAtStart, storeAtCheck>>

\* eval "$COMMAND" of the success path
Execute ==
  /\ pc = "execute"
  /\ executed' = Append(executed, COMMAND)
  /\ pc' = "exit0"
  /\ UNCHANGED <<otherVars, run, now, fileVars, inputVars, keyVars, tempVars, spinVars, loopVars,
                 flagVars, CONFIRM, exitCode, attempts, delays, prompts, rendered,
                 inserts, errorsShown, fetched, storeAtStart, storeAtCheck>>

\* exit 0
ExitSuccess ==
  /\ pc = "exit0"
  /\ exitCode' = 0
  /\ Cleanup
  /\ pc' = "done"
  /\ UNCHANGED <<otherVars, run, now, fileVars, inputVars, keyVars, loopVars, flagVars, CONFIRM,
                 histVars>>

\* The tool is invoked again, some time later, on the same cache file.  The
\* script reads the clock and the file's time only to subtract them, so the
\* new process counts time from the file's last modification.
NextInvocation ==
  /\ pc = "done"
  /\ run < MaxRuns
  /\ run' = run + 1
  /\ \E gap \in Gaps : now' = (now - cacheMtime) + gap
  /\ cacheMtime' = 0
  /\ COMMAND' \in Invocations
  /\ DEBUG' \in BOOLEAN
  /\ FreshProcess
  /\ storeAtStart' = [file |-> cacheFile, mtime |-> 0]
  /\ UNCHANGED <<otherVars, cacheFile>>

Next ==
  \/ Startup
  \/ ParseCommand
  \/ CacheCheck
  \/ CacheHit
  \/ CacheMiss
  \/ LoopTest
  \/ Backoff
  \/ Attempt
  \/ AttemptFailed
  \/ AttemptSucceeded
  \/ AfterLoop
  \/ RunAnywayPrompt
  \/ RunAnyway
  \/ ExitFailure
  \/ Render
  \/ ConfirmExecute
  \/ Execute
  \/ ExitSuccess
  \/ NextInvocation

Spec == Init /\ [][Next]_vars

(***************************************************************************)
(* The key derivation applied to two command lines.                        *)
(***************************************************************************)
InitKey ==
  /\ pc = "pair"
  /\ left \in Commands /\ right \in Commands
  /\ leftKey = <<>> /\ rightKey = <<>>
  /\ run = 1 /\ now = 0
  /\ cacheFile = MissingCache /\ cacheMtime = 0
  /\ COMMAND = <<>> /\ DEBUG = FALSE
  /\ CMD = <<>> /\ ARGS = <<>> /\ CACHE_KEY = <<>>
  /\ TEMP_JSON = "missing" /\ TEMP_RESPONSE = MissingFile
  /\ SPINNER_PID = 0 /\ spinners = {} /\ cursorHidden = FALSE
  /\ RETRY_COUNT = 0 /\ RETRY_DELAY = RETRY_DELAY_INITIAL /\ CURL_STATUS = 0
  /\ SUCCESS = FALSE /\ CACHE_HIT = FALSE /\ CONFIRM = <<>>
  /\ exitCode = -1
  /\ attempts = 0 /\ delays = <<>> /\ executed = <<>> /\ prompts = <<>>
  /\ rendered = <<>> /\ inserts = 0 /\ errorsShown = 0 /\ fetched = <<>>
  /\ storeAtStart = [file |-> MissingCache, mtime |-> 0]
  /\ storeAtCheck = [file |-> MissingCache, mtime |-> 0]
  /\ StoreIdle /\ InsertIdle /\ TwinIdle /\ SigIdle /\ ScreenIdle /\ TableIdle
  /\ HookIdle /\ SharedIdle

DeriveKeys ==
  /\ pc = "pair"
  /\ leftKey' = CacheKeyOf(left)
  /\ rightKey' = CacheKeyOf(right)
  /\ pc' = "paired"
  /\ UNCHANGED <<left, right, run, now, fileVars, inputVars, keyVars, tempVars,
                 spinVars, loopVars, flagVars, CONFIRM, exitCode, histVars, storeVars,
                 insertVars, twinVars, sigVars, uiVars>>

NextKey == DeriveKeys

SpecKey == InitKey /\ [][NextKey]_vars

(***************************************************************************)
(* The cache file over a series of invocations.  An invocation is taken    *)
(* as one step: it starts some time after the one before, runs             *)
(* manage_cache_expiration and check_cache, and then either reads the      *)
(* stored record (a hit), or stores a fetched one after the delays it      *)
(* slept, or gives up after MAX_RETRIES attempts.                          *)
(***************************************************************************)
Max(a, b) == IF a >= b THEN a ELSE b

\* Seconds slept before a response is stored: none when the first attempt
\* succeeds, 1 + 2 + 4 + 8 when the last one does.
InsertDelays == {0, 15}

InitStore ==
  /\ pc = "store"
  /\ run = 0
  /\ now = 0
  /\ cacheFile = JsonCache(SmallDoc) /\ cacheMtime = 0
  /\ COMMAND = <<>> /\ DEBUG = FALSE
  /\ ProcessAtRest
  /\ storeAtStart = [file |-> cacheFile, mtime |-> cacheMtime]
  /\ lastTouch = 0 /\ longestGap = 0 /\ lookedUp = {}
  /\ PairIdle /\ InsertIdle /\ TwinIdle /\ SigIdle /\ ScreenIdle /\ TableIdle
  /\ HookIdle /\ SharedIdle

\* What every invocation does to begin with, gap seconds after the end of
\* the one before.
SessionStart(gap, command) ==
  /\ pc = "store"
  /\ run < MaxSessions
  /\ run' = run + 1
  /\ COMMAND' = command
  /\ lookedUp' = lookedUp \cup {CacheKeyOf(command)}
  /\ UNCHANGED <<pc, DEBUG, keyVars, tempVars, spinVars, loopVars, flagVars, CONFIRM,
                 exitCode, histVars, pairVars, insertVars, twinVars, sigVars, uiVars>>

\* Variant: a hit that does not touch the cache file.
SessionHitWithoutTouch ==
  \E gap \in Gaps, command \in Invocations :
    LET t == now + gap
        m == ManageCacheExpiration(cacheFile, cacheMtime, t)
    IN  /\ SessionStart(gap, command)
        /\ CheckCache(m.file, CacheKeyOf(command))
        /\ now' = t
        /\ cacheFile' = m.file
        /\ cacheMtime' = m.mtime
        /\ lastTouch' = t
        /\ longestGap' = Max(longestGap, t - lastTouch)

\* manage_cache_expiration; check_cache succeeds; get_from_cache
SessionHit ==
  \E gap \in Gaps, command \in Invocations :
    LET t == now + gap
        m == ManageCacheExpiration(cacheFile, cacheMtime, t)
    IN  /\ SessionStart(gap, command)
        /\ CheckCache(m.file, CacheKeyOf(command))
        /\ now' = t
        /\ cacheFile' = m.file
        /\ cacheMtime' = t
        /\ lastTouch' = t
        /\ longestGap' = Max(longestGap, t - lastTouch)

\* manage_cache_expiration; check_cache fails; an attempt succeeds after the
\* delays; add_to_cache
SessionInsert ==
  \E gap \in Gaps, command \in Invocations, slept \in InsertDelays :
    LET t == now + gap
        m == ManageCacheExpiration(cacheFile, cacheMtime, t)
    IN  /\ SessionStart(gap, command)
        /\ ~CheckCache(m.file, CacheKeyOf(command))
        /\ now' = t + slept
        /\ cacheFile' = AddToCache(m.file, CacheKeyOf(command), JsonFile(HighRecord))
        /\ cacheMtime' = t + slept
        /\ lastTouch' = t + slept
        /\ longestGap' = Max(longestGap, (t + slept) - lastTouch)

\* manage_cache_expiration; check_cache fails; no attempt succeeds
SessionExhausted ==
  \E gap \in Gaps, command \in Invocations :
    LET t == now + gap
        m == ManageCacheExpiration(cacheFile, cacheMtime, t)
    IN  /\ SessionStart(gap, command)
        /\ ~CheckCache(m.file, CacheKeyOf(command))
        /\ now' = t + 15
        /\ cacheFile' = m.file
        /\ cacheMtime' = m.mtime
        /\ UNCHANGED <<lastTouch, longestGap>>

NextStore == SessionHit \/ SessionInsert \/ SessionExhausted

SpecStore == InitStore /\ [][NextStore]_vars

(***************************************************************************)
(* add_to_cache command by command, in a process that can be killed        *)
(* between any two of them.  The script is at line 327: the response has   *)
(* passed the checks and the "Caching explanation" spinner runs.           *)
(***************************************************************************)
InitInsert ==
  /\ pc = "insert"
  /\ run = 1
  /\ now = 1
  /\ cacheFile \in InitialCaches \ {MissingCache} /\ cacheMtime = 0
  /\ COMMAND \in Invocations /\ DEBUG = FALSE
  /\ CMD = CmdOf(COMMAND) /\ ARGS = ArgsOf(COMMAND) /\ CACHE_KEY = CacheKeyOf(COMMAND)
  /\ TEMP_JSON = "payload"
  /\ TEMP_RESPONSE \in {JsonFile(b) : b \in ValidBodies}
  /\ SPINNER_PID = 1 /\ spinners = {1} /\ cursorHidden = TRUE
  /\ RETRY_COUNT = 0 /\ RETRY_DELAY = RETRY_DELAY_INITIAL /\ CURL_STATUS = 0
  /\ SUCCESS = FALSE /\ CACHE_HIT = FALSE /\ CONFIRM = <<>>
  /\ exitCode = -1
  /\ attempts = 1 /\ delays = <<>> /\ executed = <<>> /\ prompts = <<>>
  /\ rendered = <<>> /\ inserts = 0 /\ errorsShown = 0 /\ fetched = <<>>
  /\ storeAtStart = [file |-> cacheFile, mtime |-> cacheMtime]
  /\ storeAtCheck = [file |-> cacheFile, mtime |-> cacheMtime]
  /\ tmp_cache_file = MissingCache
  /\ PairIdle /\ StoreIdle /\ TwinIdle /\ SigIdle /\ ScreenIdle /\ TableIdle
  /\ HookIdle /\ SharedIdle

\* What the commands of add_to_cache leave alone.
insertFrame == <<run, now, inputVars, keyVars, tempVars, spinVars, loopVars, flagVars,
                 CONFIRM, exitCode, histVars, pairVars, storeVars, twinVars, sigVars, uiVars>>

\* local tmp_cache_file=$(mktemp)
InsertMktemp ==
  /\ pc = "insert"
  /\ tmp_cache_file' = BlankCache
  /\ pc' = "ins-assign"
  /\ UNCHANGED <<insertFrame, fileVars>>

\* jq --arg key ... '.[$key] = $content[0]' "$CACHE_FILE" > "$tmp_cache_file"
InsertAssign ==
  /\ pc = "ins-assign"
  /\ tmp_cache_file' = JqAssign(cacheFile, CACHE_KEY, TEMP_RESPONSE)
  /\ pc' = "ins-size"
  /\ UNCHANGED <<insertFrame, fileVars>>

\* CACHE_SIZE=$(jq 'length' "$tmp_cache_file"); [ "$CACHE_SIZE" -gt ... ]
InsertSize ==
  /\ pc = "ins-size"
  /\ pc' = IF tmp_cache_file.kind = "json"
                /\ Cardinality(DOMAIN tmp_cache_file.doc) > MAX_CACHE_ENTRIES
           THEN "ins-truncate"
           ELSE "ins-mv"
  /\ UNCHANGED <<insertFrame, fileVars, tmp_cache_file>>

\* ... > "$CACHE_FILE": the shell opens the cache file for writing, which
\* empties it, before it starts jq.
EvictTruncate ==
  /\ pc = "ins-truncate"
  /\ cacheFile' = BlankCache
  /\ cacheMtime' = now
  /\ pc' = "ins-write"
  /\ UNCHANGED <<insertFrame, tmp_cache_file>>

\* jq 'to_entries | sort_by(.key) | .[1:] | from_entries' "$tmp_cache_file"
EvictWrite ==
  /\ pc = "ins-write"
  /\ cacheFile' = JsonCache(DropSmallest(tmp_cache_file.doc))
  /\ cacheMtime' = now
  /\ pc' = "ins-rm"
  /\ UNCHANGED <<insertFrame, tmp_cache_file>>

\* mv "$tmp_cache_file" "$CACHE_FILE"
InsertMove ==
  /\ pc = "ins-mv"
  /\ cacheFile' = tmp_cache_file
  /\ cacheMtime' = now
  /\ tmp_cache_file' = MissingCache
  /\ pc' = "ins-rm"
  /\ UNCHANGED insertFrame

\* [ -f "$tmp_cache_file" ] && rm -f "$tmp_cache_file"
InsertRemove ==
  /\ pc = "ins-rm"
  /\ tmp_cache_file' = MissingCache
  /\ pc' = "inserted"
  /\ UNCHANGED <<insertFrame, fileVars>>

\* The process is killed (SIGKILL, power loss): nothing more runs.
Crash ==
  /\ pc \in {"insert", "ins-assign", "ins-size", "ins-truncate", "ins-write", "ins-mv",
             "ins-rm"}
  /\ pc' = "crashed"
  /\ UNCHANGED <<insertFrame, fileVars, tmp_cache_file>>

NextInsert ==
  \/ InsertMktemp
  \/ InsertAssign
  \/ InsertSize
  \/ EvictTruncate
  \/ EvictWrite
  \/ InsertMove
  \/ InsertRemove
  \/ Crash

SpecInsert == InitInsert /\ [][NextInsert]_vars

\* The commands of add_to_cache, run to the end, give what AddToCache gives.
InsertStepsAgree ==
  pc = "inserted" =>
    /\ cacheFile = AddToCache(storeAtCheck.file, CACHE_KEY, TEMP_RESPONSE)
    /\ tmp_cache_file = MissingCache

(***************************************************************************)
(* One invocation run twice in the same surroundings, first without DEBUG  *)
(* and then with it: the same command, the same cache file at the same     *)
(* age, and an API that gives the same answer to the first request, to the *)
(* second, and so on.                                                      *)
(***************************************************************************)
\* The answers of the API in the two runs: connection refused, a body that
\* is not JSON, a valid record.
TwinOutcomes ==
  {o \in CurlOutcomes :
     \/ o.status = 7
     \/ o.status = 0 /\ o.out \in {TextFile, JsonFile(HighRecord)}}

InitTwin ==
  /\ pc = "start"
  /\ run = 1
  /\ now = 0
  /\ cacheFile = JsonCache(SmallDoc) /\ cacheMtime = 0
  /\ COMMAND \in {<<"a">>, RmCommand}
  /\ DEBUG = FALSE
  /\ ProcessAtRest
  /\ storeAtStart = [file |-> cacheFile, mtime |-> cacheMtime]
  /\ script \in [1..MAX_RETRIES -> TwinOutcomes]
  /\ first = NoRun
  /\ PairIdle /\ StoreIdle /\ InsertIdle /\ SigIdle /\ ScreenIdle /\ TableIdle
  /\ HookIdle /\ SharedIdle

\* start_spinner; curl > "$TEMP_RESPONSE" 2>&1; CURL_STATUS=$?; stop_spinner,
\* the API answering as the script says.
AttemptScripted ==
  /\ pc = "attempt"
  /\ LET o == script[attempts + 1]
     IN  /\ TEMP_RESPONSE' = CurlWrites(DEBUG, o)
         /\ CURL_STATUS' = o.status
  /\ SetSpin(SpinAroundCurl(CurrentSpin, DEBUG))
  /\ attempts' = attempts + 1
  /\ pc' = "classify"
  /\ UNCHANGED <<otherVars, run, now, fileVars, inputVars, keyVars, TEMP_JSON, RETRY_COUNT,
                 RETRY_DELAY, flagVars, CONFIRM, exitCode, delays, executed, prompts,
                 rendered, inserts, errorsShown, fetched, storeAtStart, storeAtCheck>>

\* The same invocation again with DEBUG set, the cache file and the clock put
\* back to what the first run started with.
TwinInvocation ==
  /\ pc = "done"
  /\ run = 1
  /\ run' = 2
  /\ DEBUG' = TRUE
  /\ first' = [attempts |-> attempts, inserts |-> inserts, fetched |-> fetched,
               exitCode |-> exitCode, input |-> prompts[1].input]
  /\ cacheFile' = storeAtStart.file
  /\ cacheMtime' = storeAtStart.mtime
  /\ now' = now - SumOf(delays)
  /\ FreshProcess
  /\ UNCHANGED <<COMMAND, storeAtStart, script, pairVars, storeVars, insertVars, sigVars, uiVars>>

NextTwin ==
  \/ Startup
  \/ ParseCommand
  \/ CacheCheck
  \/ CacheHit
  \/ CacheMiss
  \/ LoopTest
  \/ Backoff
  \/ AttemptScripted
  \/ AttemptFailed
  \/ AttemptSucceeded
  \/ AfterLoop
  \/ RunAnywayPrompt
  \/ RunAnyway
  \/ ExitFailure
  \/ Render
  \/ ConfirmExecute
  \/ Execute
  \/ ExitSuccess
  \/ TwinInvocation

SpecTwin == InitTwin /\ [][NextTwin]_vars

(***************************************************************************)
(* The script with INT and TERM signals.  trap cleanup EXIT INT TERM makes *)
(* the shell run cleanup when a signal arrives and then go on with the     *)
(* script where it was (cleanup does not exit); the shell runs the handler *)
(* between two commands, after the command in progress has ended.  The     *)
(* blocks that run with the spinner alive are taken command by command.    *)
(***************************************************************************)
InitSig ==
  /\ pc = "start"
  /\ run = 1
  /\ now = 0
  /\ cacheFile \in {JsonCache(EmptyDoc), JsonCache(SmallDoc)} /\ cacheMtime = 0
  /\ COMMAND \in {<<"a">>, RmCommand}
  /\ DEBUG \in BOOLEAN
  /\ ProcessAtRest
  /\ storeAtStart = [file |-> cacheFile, mtime |-> cacheMtime]
  /\ SigIdle
  /\ PairIdle /\ StoreIdle /\ InsertIdle /\ TwinIdle /\ ScreenIdle /\ TableIdle
  /\ HookIdle /\ SharedIdle

\* start_spinner "Retrieving explanation from cache..."
HitStartSpinner ==
  /\ pc = "hit"
  /\ SetSpin(StartSpinner(CurrentSpin))
  /\ pc' = "hit-get"
  /\ UNCHANGED <<otherVars, run, now, fileVars, inputVars, keyVars, tempVars, loopVars,
                 flagVars, CONFIRM, exitCode, histVars>>

\* get_from_cache: jq > "$TEMP_RESPONSE"; touch "$CACHE_FILE"
HitGet ==
  /\ pc = "hit-get"
  /\ TEMP_RESPONSE' = GetFromCache(cacheFile, CACHE_KEY)
  /\ cacheMtime' = now
  /\ pc' = "hit-stop"
  /\ UNCHANGED <<otherVars, run, now, cacheFile, inputVars, keyVars, TEMP_JSON, spinVars,
                 loopVars, flagVars, CONFIRM, exitCode, histVars>>

\* stop_spinner; SUCCESS=true; CACHE_HIT=true
HitStopSpinner ==
  /\ pc = "hit-stop"
  /\ SetSpin(StopSpinner(CurrentSpin))
  /\ SUCCESS' = TRUE
  /\ CACHE_HIT' = TRUE
  /\ pc' = "after"
  /\ UNCHANGED <<otherVars, run, now, fileVars, inputVars, keyVars, tempVars, loopVars,
                 CONFIRM, exitCode, histVars>>

\* Variant: the DEBUG branch without its stop_spinner before curl.
AttemptStartSpinnerNoStop ==
  /\ pc = "attempt"
  /\ SetSpin(StartSpinner(CurrentSpin))
  /\ pc' = "curl"
  /\ UNCHANGED <<otherVars, run, now, fileVars, inputVars, keyVars, tempVars, loopVars,
                 flagVars, CONFIRM, exitCode, histVars>>

\* start_spinner "AuditDog is analyzing..." or "Retrying..."; with DEBUG,
\* stop_spinner and "Calling API..."
AttemptStartSpinner ==
  /\ pc = "attempt"
  /\ SetSpin(IF DEBUG THEN StopSpinner(StartSpinner(CurrentSpin))
             ELSE StartSpinner(CurrentSpin))
  /\ pc' = "curl"
  /\ UNCHANGED <<otherVars, run, now, fileVars, inputVars, keyVars, tempVars, loopVars,
                 flagVars, CONFIRM, exitCode, histVars>>

\* curl > "$TEMP_RESPONSE" 2>&1; CURL_STATUS=$?; with DEBUG, start_spinner
\* "Continuing analysis..."
Curl ==
  /\ pc = "curl"
  /\ \E o \in CurlOutcomes :
       /\ TEMP_RESPONSE' = CurlWrites(DEBUG, o)
       /\ CURL_STATUS' = o.status
  /\ SetSpin(IF DEBUG THEN StartSpinner(CurrentSpin) ELSE CurrentSpin)
  /\ attempts' = attempts + 1
  /\ pc' = "curled"
  /\ UNCHANGED <<otherVars, run, now, fileVars, inputVars, keyVars, TEMP_JSON, RETRY_COUNT,
                 RETRY_DELAY, flagVars, CONFIRM, exitCode, delays, executed, prompts,
                 rendered, inserts, errorsShown, fetched, storeAtStart, storeAtCheck>>

\* Variant: the stop_spinner after curl left out.
AttemptStopSpinnerSkipped ==
  /\ pc = "curled"
  /\ pc' = "classify"
  /\ UNCHANGED <<otherVars, run, now, fileVars, inputVars, keyVars, tempVars, spinVars,
                 loopVars, flagVars, CONFIRM, exitCode, histVars>>

\* stop_spinner (line 275)
AttemptStopSpinner ==
  /\ pc = "curled"
  /\ SetSpin(StopSpinner(CurrentSpin))
  /\ pc' = "classify"
  /\ UNCHANGED <<otherVars, run, now, fileVars, inputVars, keyVars, tempVars, loopVars,
                 flagVars, CONFIRM, exitCode, histVars>>

\* All checks pass: start_spinner "Caching explanation for future use..."
CacheStartSpinner ==
  /\ pc = "classify"
  /\ Classify(CURL_STATUS, TEMP_RESPONSE) = "ok"
  /\ SetSpin(StartSpinner(CurrentSpin))
  /\ fetched' = Append(fetched, TEMP_RESPONSE.body)
  /\ pc' = "caching"
  /\ UNCHANGED <<otherVars, run, now, fileVars, inputVars, keyVars, tempVars, loopVars,
                 flagVars, CONFIRM, exitCode, attempts, delays, executed, prompts,
                 rendered, inserts, errorsShown, storeAtStart, storeAtCheck>>

\* add_to_cache "$CACHE_KEY"
CacheAdd ==
  /\ pc = "caching"
  /\ cacheFile' = AddToCache(cacheFile, CACHE_KEY, TEMP_RESPONSE)
  /\ cacheMtime' = now
  /\ inserts' = inserts + 1
  /\ pc' = "cached"
  /\ UNCHANGED <<otherVars, run, now, inputVars, keyVars, tempVars, spinVars, loopVars,
                 flagVars, CONFIRM, exitCode, attempts, delays, executed, prompts,
                 rendered, errorsShown, fetched, storeAtStart, storeAtCheck>>

\* stop_spinner; SUCCESS=true; break
CacheStopSpinner ==
  /\ pc = "cached"
  /\ SetSpin(StopSpinner(CurrentSpin))
  /\ SUCCESS' = TRUE
  /\ pc' = "after"
  /\ UNCHANGED <<otherVars, run, now, fileVars, inputVars, keyVars, tempVars, loopVars,
                 CACHE_HIT, CONFIRM, exitCode, histVars>>

\* The handler runs when the foreground command has ended: right after curl
\* or right after the sleep of the retry delay when the signal came while the
\* script was waiting for one of them.
AfterBlocking == pc = "curled" \/ (pc = "attempt" /\ RETRY_COUNT > 0)

\* INT or TERM once the trap is set: cleanup runs and the script goes on.
Signal ==
  /\ pc \notin {"start", "done"}
  /\ signals < MaxSignals
  /\ signals' = signals + 1
  /\ interrupted' = IF interrupted = -1 /\ AfterBlocking THEN attempts ELSE interrupted
  /\ Cleanup
  /\ UNCHANGED <<pc, run, now, fileVars, inputVars, keyVars, loopVars, flagVars, CONFIRM,
                 exitCode, histVars, pairVars, storeVars, insertVars, twinVars, uiVars>>

\* INT or TERM before line 128 has set the trap: the shell is terminated by
\* the signal (status 128 + 2 or 128 + 15).
SignalBeforeTrap ==
  /\ pc = "start"
  /\ signals < MaxSignals
  /\ signals' = signals + 1
  /\ exitCode' \in {130, 143}
  /\ UNCHANGED interrupted
  /\ pc' = "done"
  /\ UNCHANGED <<run, now, fileVars, inputVars, keyVars, tempVars, spinVars, loopVars,
                 flagVars, CONFIRM, histVars, pairVars, storeVars, insertVars, twinVars,
                 uiVars>>

NextSig ==
  \/ Startup
  \/ ParseCommand
  \/ CacheCheck
  \/ HitStartSpinner
  \/ HitGet
  \/ HitStopSpinner
  \/ CacheMiss
  \/ LoopTest
  \/ Backoff
  \/ AttemptStartSpinner
  \/ Curl
  \/ AttemptStopSpinner
  \/ AttemptFailed
  \/ CacheStartSpinner
  \/ CacheAdd
  \/ CacheStopSpinner
  \/ AfterLoop
  \/ RunAnywayPrompt
  \/ RunAnyway
  \/ ExitFailure
  \/ Render
  \/ ConfirmExecute
  \/ Execute
  \/ ExitSuccess
  \/ Signal
  \/ SignalBeforeTrap

SpecSig == InitSig /\ [][NextSig]_vars

(***************************************************************************)
(* Properties.                                                             *)
(***************************************************************************)
\* The lookup of this invocation found the key.
HitAtCheck == CheckCache(storeAtCheck.file, CACHE_KEY)

\* An explanation was obtained: from the cache or from a successful attempt.
Obtained == HitAtCheck \/ fetched # <<>>

BeforePrompt ==
  {"start", "parse", "check", "hit", "miss", "loop", "backoff", "attempt", "classify",
   "after"}

LoopOver ==
  {"after", "failed", "run-anyway", "exit1", "render", "confirm", "execute", "exit0",
   "done"}

\* C1: the original command is executed at most once per run and only after
\* the user has answered a prompt of that run: after the display and the
\* [Y/n] prompt when an explanation was obtained, after the run-anyway prompt
\* when the attempts were exhausted; never before the retry loop is over.
C1_ExecutionGated ==
  /\ Len(executed) <= 1
  /\ pc \in BeforePrompt => executed = <<>>
  /\ (pc \in {"execute", "run-anyway"} \/ executed # <<>>) =>
       /\ Len(prompts) = 1
       /\ \/ /\ prompts[1].prompt = "execute"
             /\ Len(rendered) = 1
             /\ Obtained
             /\ pc # "run-anyway"
          \/ /\ prompts[1].prompt = "run-anyway"
             /\ rendered = <<>>
             /\ ~Obtained /\ attempts = MAX_RETRIES
             /\ pc # "execute"

C1_Witness ==
  /\ pc = "done"
  /\ executed = <<COMMAND>>
  /\ prompts[1].prompt = "execute"
  /\ attempts = 3

\* C2: the exit status is 0 exactly when an explanation was obtained (cache
\* hit or successful attempt) and 1 exactly when all attempts were exhausted,
\* whatever the user answered.
C2_ExitStatus ==
  pc = "done" =>
    /\ exitCode \in {0, 1}
    /\ exitCode = 0 <=> Obtained
    /\ exitCode = 1 <=> (~HitAtCheck /\ fetched = <<>> /\ attempts = MAX_RETRIES)

C2_Witness ==
  /\ pc = "done"
  /\ exitCode = 1
  /\ executed = <<COMMAND>>

\* C3: at the [Y/n] prompt the command is skipped exactly when the answer, as
\* read -r delivers it, is n or N; every other answer, the empty one and end
\* of input included, executes it.
C3_DefaultYes ==
  (prompts # <<>> /\ prompts[1].prompt = "execute") =>
    LET answer == ReadLine(prompts[1].input)
        runs == pc = "execute" \/ executed # <<>>
        skips == pc \in {"exit0", "done"} /\ executed = <<>>
    IN  /\ runs \/ skips
        /\ answer = <<>> => runs
        /\ skips <=> answer \in {<<"n">>, <<"N">>}

C3_Witness ==
  /\ pc = "execute"
  /\ prompts[1].input = [eof |-> TRUE, text |-> <<>>]

\* C4: when the attempts are exhausted the failure is reported once, the
\* run-anyway prompt is shown, the command runs exactly when the answer is y
\* or Y, and the exit status is 1 whatever the answer; a non-zero exit status
\* is always preceded by this prompt.
C4_RunAnywayDefaultNo ==
  /\ errorsShown <= 1
  /\ (pc = "done" /\ exitCode # 0) =>
       /\ exitCode = 1
       /\ Len(prompts) = 1 /\ prompts[1].prompt = "run-anyway"
  /\ (pc \in LoopOver \ {"after"} /\ ~Obtained) =>
       /\ errorsShown = (IF pc = "failed" THEN 0 ELSE 1)
       /\ pc # "failed" =>
            /\ Len(prompts) = 1 /\ prompts[1].prompt = "run-anyway"
            /\ (pc = "run-anyway" \/ executed # <<>>)
                 <=> ReadLine(prompts[1].input) \in {<<"y">>, <<"Y">>}
            /\ pc = "done" => exitCode = 1

C4_Witness ==
  /\ pc = "done"
  /\ exitCode = 1
  /\ executed = <<>>
  /\ prompts[1].input = [eof |-> TRUE, text |-> <<>>]

\* C5: when no attempt succeeds, exactly MAX_RETRIES attempts are made, the
\* script takes the failure branch, and the cache file holds what it held
\* when the lookup missed.
C5_ExhaustedLeavesCache ==
  (pc \in LoopOver /\ ~Obtained) =>
    /\ attempts = MAX_RETRIES
    /\ ~SUCCESS
    /\ pc \in {"after", "failed", "run-anyway", "exit1", "done"}
    /\ inserts = 0
    /\ cacheFile = storeAtCheck.file

C5_Witness ==
  /\ pc = "done"
  /\ ~Obtained
  /\ ~DEBUG
  /\ cacheFile = JsonCache(SmallDoc)

\* C6: a success on attempt k is preceded by exactly k - 1 delays, none of them
\* before the first attempt, the first of RETRY_DELAY_INITIAL seconds and
\* each later one twice the one before (1, 2, 4, 8 for k = 5), and the record
\* that is displayed is the one attempt k received.
C6_BackoffThenRecord ==
  /\ \A i \in 1..Len(delays) :
       delays[i] = IF i = 1 THEN RETRY_DELAY_INITIAL ELSE 2 * delays[i - 1]
  /\ attempts = 0 => delays = <<>>
  /\ pc = "classify" => Len(delays) = attempts - 1
  /\ fetched # <<>> =>
       /\ Len(fetched) = 1
       /\ attempts \in 1..MAX_RETRIES
       /\ Len(delays) = attempts - 1
       /\ attempts = 5 => delays = <<1, 2, 4, 8>>
       /\ TEMP_RESPONSE # MissingFile => TEMP_RESPONSE = JsonFile(fetched[1])
       /\ rendered # <<>> =>
            /\ ~rendered[1].cached
            /\ rendered[1].summary = fetched[1].summary
            /\ rendered[1].banner = Banner(fetched[1].risk_level)
            /\ rendered[1].sections = fetched[1].sections

C6_Witness ==
  /\ fetched # <<>>
  /\ attempts = 5
  /\ delays = <<1, 2, 4, 8>>
  /\ rendered # <<>>

\* The invocation started on a store that holds its key and has not expired.
FreshHit ==
  /\ storeAtStart.file.kind = "json"
  /\ CacheKeyOf(COMMAND) \in DOMAIN storeAtStart.file.doc
  /\ now - storeAtStart.mtime <= ExpirySeconds

\* C7: when the key is in an unexpired store, no remote attempt is made, the
\* script goes from the lookup to the display, the record displayed is the
\* stored one, marked as cached, and the file's modification time becomes
\* the current time.
C7_HitServedFromCache ==
  FreshHit =>
    /\ attempts = 0
    /\ pc \notin {"miss", "loop", "backoff", "attempt", "classify", "failed",
                  "run-anyway", "exit1"}
    /\ cacheFile = storeAtStart.file
    /\ pc \in LoopOver =>
         /\ CACHE_HIT
         /\ cacheMtime = now
    /\ pc \in LoopOver \ {"after", "render"} =>
         LET stored == storeAtStart.file.doc[CacheKeyOf(COMMAND)]
         IN  /\ Len(rendered) = 1
             /\ rendered[1].cached
             /\ rendered[1].summary = stored.summary
             /\ rendered[1].banner = Banner(stored.risk_level)
             /\ rendered[1].sections = stored.sections

C7_Witness ==
  /\ FreshHit
  /\ pc = "done"
  /\ rendered # <<>>
  /\ storeAtStart.mtime < now

\* C8: two command lines that differ only in leading, trailing or repeated
\* white space get the same cache key.
C8_WhitespaceInvariantKey ==
  (pc = "paired" /\ WordSplit(left) = WordSplit(right)) => leftKey = rightKey

\* C9: `rm -rf /tmp/x` on an empty cache, answered on the first attempt by a
\* valid high-risk record, shows the high-risk banner, stores the record under
\* the key "rm -rf /tmp/x" and exits 0.
C9_RmScenario ==
  (/\ pc = "done"
   /\ COMMAND = RmCommand
   /\ storeAtStart.file = JsonCache(EmptyDoc)
   /\ attempts = 1
   /\ fetched = <<HighRecord>>) =>
    /\ Len(rendered) = 1
    /\ rendered[1].banner = "RISK LEVEL: HIGH"
    /\ exitCode = 0
    /\ cacheFile = JsonCache([k \in {RmCommand} |-> HighRecord])

\* C10: an insertion into a store, whatever it holds, followed at once by a
\* lookup of the same key is a hit that returns the inserted record.
C10_RoundTrip ==
  (pc = "after" /\ inserts = 1 /\ storeAtCheck.file.kind = "json") =>
    /\ CheckCache(cacheFile, CACHE_KEY)
    /\ GetFromCache(cacheFile, CACHE_KEY) = JsonFile(fetched[1])

\* Number of entries the cache file holds.
StoreSize(file) == IF file.kind = "json" THEN Cardinality(DOMAIN file.doc) ELSE 0

StartAge == (now - SumOf(delays)) - storeAtStart.mtime

\* The cache file as the lookup of this invocation finds it.
LookupStore == IF pc \in {"parse", "check"} THEN cacheFile ELSE storeAtCheck.file

\* C12: when the cache file is older than CACHE_EXPIRY_DAYS at the start of an
\* invocation, the lookup finds an empty store and misses for every key; when
\* it is not older, the lookup finds the store the invocation started with.
C12_ExpiredStoreIsEmpty ==
  (pc # "start" /\ storeAtStart.file.kind # "missing") =>
    IF StartAge > ExpirySeconds
    THEN /\ LookupStore = JsonCache(EmptyDoc)
         /\ \A k \in DOMAIN storeAtStart.file.doc \cup {CACHE_KEY} :
              ~CheckCache(LookupStore, k)
         /\ pc # "hit" /\ ~CACHE_HIT
    ELSE LookupStore = storeAtStart.file

C12_Witness ==
  /\ pc = "miss"
  /\ storeAtStart.file = JsonCache(SmallDoc)
  /\ CACHE_KEY \in DOMAIN SmallDoc
  /\ StartAge = ExpirySeconds + 1

\* C15: the lookup leaves the contents of the cache file alone; it sets the
\* file's modification time to the current time when it is a hit and leaves
\* the time alone when it is a miss.
C15_LookupFrame ==
  /\ pc \in {"hit", "miss"} =>
       /\ cacheFile = storeAtCheck.file
       /\ cacheMtime = storeAtCheck.mtime
  /\ (pc \in LoopOver /\ HitAtCheck) =>
       /\ cacheFile = storeAtCheck.file
       /\ cacheMtime = now
  /\ (pc \in {"loop", "backoff", "attempt", "classify"} \cup LoopOver
        /\ ~HitAtCheck /\ inserts = 0) =>
       /\ cacheFile = storeAtCheck.file
       /\ cacheMtime = storeAtCheck.mtime

C15_Witness ==
  /\ pc = "after"
  /\ HitAtCheck
  /\ storeAtCheck.mtime < now
  /\ cacheMtime = now
  /\ cacheFile = JsonCache(SmallDoc)

\* C20: when the cache file cannot be read, the lookup is a miss, the
\* insertion stores nothing, and an invocation whose remote call succeeds
\* still displays the fetched record, not marked as cached, and exits 0.
C20_StorageFailureNonFatal ==
  (pc \in {"hit", "miss", "loop", "backoff", "attempt", "classify"} \cup LoopOver
     /\ storeAtCheck.file.kind = "empty") =>
    /\ pc # "hit" /\ ~CACHE_HIT
    /\ cacheFile.kind = "empty"
    /\ fetched # <<>> =>
         /\ inserts = 1
         /\ pc \in {"after", "render", "confirm", "execute", "exit0", "done"}
         /\ pc \in {"confirm", "execute", "exit0", "done"} =>
              rendered = <<[command  |-> COMMAND,
                            cached   |-> FALSE,
                            summary  |-> fetched[1].summary,
                            banner   |-> Banner(fetched[1].risk_level),
                            sections |-> fetched[1].sections]>>
         /\ pc = "done" => exitCode = 0

C20_Witness ==
  /\ pc = "done"
  /\ storeAtCheck.file = BlankCache
  /\ fetched = <<HighRecord>>
  /\ inserts = 1
  /\ exitCode = 0
  /\ executed = <<>>

\* C13: an entry of the store that is never looked up itself is still found
\* by a lookup, with the record it was stored with, as long as no more than
\* CACHE_EXPIRY_DAYS have passed between any two consecutive hits or
\* insertions and since the last of them, however long ago the entry was
\* stored.
C13_UntouchedEntrySurvives ==
  \A k \in DOMAIN SmallDoc :
    (k \notin lookedUp /\ Max(longestGap, now - lastTouch) <= ExpirySeconds) =>
      /\ CheckCache(cacheFile, k)
      /\ GetFromCache(cacheFile, k) = JsonFile(SmallDoc[k])

C13_Witness ==
  /\ <<"a", "b">> \notin lookedUp
  /\ longestGap = ExpirySeconds
  /\ now = lastTouch
  /\ now >= 3 * ExpirySeconds
  /\ CheckCache(cacheFile, <<"a", "b">>)

\* C14: a process killed at any point of add_to_cache leaves the cache file
\* holding either the complete document it held before or the complete new
\* one, never an empty or partial one.
C14_AtomicRewrite ==
  pc = "crashed" =>
    cacheFile \in {storeAtCheck.file,
                   AddToCache(storeAtCheck.file, CACHE_KEY, TEMP_RESPONSE)}

\* C16: a run with DEBUG set makes as many attempts, gets the same record or
\* none, makes as many cache insertions and exits with the same status as
\* the run without DEBUG on the same command, cache file, API answers and
\* typed answer.
C16_DebugSameFlow ==
  (run = 2 /\ pc = "done" /\ prompts[1].input = first.input) =>
    /\ attempts = first.attempts
    /\ fetched = first.fetched
    /\ inserts = first.inserts
    /\ exitCode = first.exitCode

\* C17: when the process has exited, on the normal path, on the exhausted
\* path, and with INT or TERM signals delivered on the way, no spinner is
\* alive, the cursor is visible and the two scratch files are gone.
C17_CleanExit ==
  pc = "done" =>
    /\ spinners = {}
    /\ SPINNER_PID = 0
    /\ ~cursorHidden
    /\ TEMP_JSON = "missing"
    /\ TEMP_RESPONSE = MissingFile

C17_Witness ==
  /\ pc = "done"
  /\ signals >= 1
  /\ exitCode = 1
  /\ attempts = MAX_RETRIES
  /\ executed = <<COMMAND>>

\* The next command of the script is a start_spinner.
StartsNext ==
  \/ pc \in {"hit", "attempt"}
  \/ pc = "curl" /\ DEBUG
  \/ pc = "classify" /\ Classify(CURL_STATUS, TEMP_RESPONSE) = "ok"

\* C18: at most one spinner is alive at any point, SPINNER_PID holds the
\* process id of every spinner alive, and start_spinner is called only when
\* none is alive and none is recorded.
C18_OneSpinner ==
  /\ Cardinality(spinners) <= 1
  /\ spinners \subseteq {SPINNER_PID}
  /\ SPINNER_PID # 0 => SPINNER_PID \in spinners
  /\ StartsNext => spinners = {} /\ SPINNER_PID = 0

C18_Witness ==
  /\ pc = "curled"
  /\ DEBUG
  /\ RETRY_COUNT >= 1
  /\ signals >= 1
  /\ SPINNER_PID # 0
  /\ spinners = {SPINNER_PID}

\* C19: stop_spinner with no spinner running changes nothing, and
\* stop_spinner run twice leaves what stop_spinner run once leaves: no
\* spinner alive, none recorded, the cursor visible.
C19_StopIdempotent ==
  LET once == StopSpinner(CurrentSpin)
      twice == StopSpinner(once)
  IN  /\ twice = once
      /\ spinners = {} => once = CurrentSpin
      /\ once.alive = {} /\ once.pid = 0 /\ ~once.hidden

C19_Witness ==
  /\ pc = "caching"
  /\ spinners # {}
  /\ cursorHidden
  /\ StopSpinner(CurrentSpin) # CurrentSpin

\* C21: an invocation that starts on a missing or a zero-length cache file
\* behaves as on an empty store: the lookup misses, and after a successful
\* attempt the cache file holds the fetched record under the key, so that the
\* next lookup of the key is a hit.
C21_MissingOrEmptyIsEmptyCache ==
  (pc # "start" /\ storeAtStart.file.kind \in {"missing", "empty"}) =>
    /\ pc # "hit" /\ ~CACHE_HIT
    /\ (pc = "after" /\ inserts = 1) =>
         /\ cacheFile = JsonCache([k \in {CACHE_KEY} |-> fetched[1]])
         /\ CheckCache(cacheFile, CACHE_KEY)

\* The API's answer passes the five checks of the claim: transport succeeded,
\* body not empty, body is JSON, no detail field, all four required fields.
AnswerIsValid(o) ==
  /\ o.status = 0
  /\ o.out.kind # "empty"
  /\ o.out.kind = "json"
  /\ o.out.body.top = "object"
  /\ "detail" \notin o.out.body.fields
  /\ Required \subseteq o.out.body.fields

\* C22: once an attempt has been classified it counts as the success of the
\* loop exactly when the API's answer to it passes the five checks; every
\* other answer adds exactly one to the retry counter, and the loop goes on
\* while the counter is below MAX_RETRIES.
C22_SuccessIffValid ==
  (attempts >= 1 /\ pc # "classify") =>
    /\ (fetched # <<>>) <=> AnswerIsValid(script[attempts])
    /\ fetched = <<>> => RETRY_COUNT = attempts
    /\ (fetched = <<>> /\ pc \in LoopOver) => attempts = MAX_RETRIES

\* C23: whatever is handed to eval, on the hit path, the miss path and the
\* run-anyway path, is the command line the script was called with: never the
\* cache key derived from it, never a field of a record.
C23_ExecutesOriginalCommand ==
  \A i \in 1..Len(executed) : executed[i] = COMMAND

\* A command whose key differs from it has been executed after a cache hit.
C23_Witness ==
  /\ CACHE_HIT
  /\ executed = <<COMMAND>>
  /\ COMMAND # CACHE_KEY

\* A record as the validation of the retry loop lets through: a JSON object
\* without a detail field and with the four required fields.
ValidRecord(b) ==
  /\ b.top = "object"
  /\ "detail" \notin b.fields
  /\ Required \subseteq b.fields

\* C24: every record of the cache file passes the validation of the retry
\* loop, and a key the store held when the invocation started still holds the
\* same record as long as it is in the store and the store was not reset.
\* (The cache file changes only at start-up and at the insertion, so the
\* records are compared after these two steps.)
C24_StoredRecordsValidatedAndImmutable ==
  (pc \in {"parse", "after"} /\ cacheFile.kind = "json") =>
    /\ \A k \in DOMAIN cacheFile.doc : ValidRecord(cacheFile.doc[k])
    /\ (storeAtStart.file.kind = "json" /\ StartAge <= ExpirySeconds) =>
         \A k \in DOMAIN cacheFile.doc \cap DOMAIN storeAtStart.file.doc :
           cacheFile.doc[k] = storeAtStart.file.doc[k]

\* A second invocation has inserted its record next to the one the first
\* invocation stored, which is unchanged.
C24_Witness ==
  /\ run = 2
  /\ pc = "after"
  /\ inserts = 1
  /\ cacheFile.kind = "json"
  /\ CACHE_KEY \in DOMAIN cacheFile.doc
  /\ \E k \in DOMAIN storeAtStart.file.doc :
       /\ k # CACHE_KEY
       /\ storeAtStart.file.doc[k] \in ValidBodies
       /\ k \in DOMAIN cacheFile.doc
       /\ cacheFile.doc[k] # cacheFile.doc[CACHE_KEY]

\* C27: the attempts of an invocation come one after the other and end with
\* the first success: an attempt starts only when every earlier one has been
\* counted as a failure and its delay has been slept, nothing is attempted
\* after a success, and the insertion is made at most once, by the successful
\* attempt, before anything is displayed.
C27_SequentialAttempts ==
  /\ inserts <= 1
  /\ inserts = Len(fetched)
  /\ pc = "attempt" =>
       fetched = <<>> /\ RETRY_COUNT = attempts /\ Len(delays) = attempts
  /\ pc = "classify" =>
       fetched = <<>> /\ RETRY_COUNT = attempts - 1 /\ Len(delays) = attempts - 1
  /\ fetched # <<>> => pc \in LoopOver /\ ~CACHE_HIT /\ attempts = RETRY_COUNT + 1
  /\ pc \in {"loop", "backoff", "attempt", "classify"} => rendered = <<>>
  /\ rendered # <<>> => inserts = (IF CACHE_HIT THEN 0 ELSE 1)

\* The third attempt succeeded after two failures and two delays, its record
\* was inserted once and has been displayed.
C27_Witness ==
  /\ attempts = 3
  /\ delays = <<1, 2>>
  /\ inserts = 1
  /\ Len(rendered) = 1
  /\ ~CACHE_HIT

\* C30: an insertion into a store whose age exceeds the expiry
\* period at the moment of the insertion clears the store first, so that the
\* cache file holds the new entry alone afterwards.
C30_InsertChecksAge ==
  (/\ pc = "after" /\ inserts = 1
   /\ storeAtCheck.file.kind = "json"
   /\ now - storeAtCheck.mtime > ExpirySeconds) =>
    cacheFile = JsonCache([k \in {CACHE_KEY} |-> fetched[1]])

\* C29: two command lines get the same cache key only when they are made of
\* the same words in the same order, that is, when they differ in white
\* space between or around the words alone.
C29_SameKeyOnlyForSameWords ==
  (pc = "paired" /\ leftKey = rightKey) => WordSplit(left) = WordSplit(right)

\* C28: once the cleanup handler has run for an INT or TERM signal that came
\* while the script was waiting for curl or sleeping a retry delay, no
\* further attempt is made, nothing is inserted into the cache and the
\* command is not executed.
C28_SignalCancels ==
  interrupted # -1 =>
    /\ attempts = interrupted
    /\ inserts = 0
    /\ executed = <<>>

(***************************************************************************)
(* The display of the explanation, line by line (lines 347-388), applied   *)
(* to records of every risk level and with zero, one or two sections.      *)
(***************************************************************************)
\* Values of risk_level: the five levels, "unknown", other strings, and
\* "null", which is what jq -r prints for a missing or null field.
RiskLevels ==
  {"critical", "high", "medium", "low", "minimal", "unknown", "null", "HIGH", ""}

SectionLists == SeqsUpTo({Section1, Section2}, 2)

\* seq 0 last (GNU): 0, 1, ..., last; nothing when last is below 0.
SeqFromZero(last) == IF last < 0 THEN <<>> ELSE [i \in 1..(last + 1) |-> i - 1]

\* The lines printed: header, command, summary, banner, then one block per
\* index of the loop over the sections.
DisplayLines(cmd, cached, f) ==
  LET SUMMARY == JqField(f, "summary")
      RISK_LEVEL == JqField(f, "risk_level")
      SECTIONS_COUNT == Len(JqSections(f))
      indices == SeqFromZero(SECTIONS_COUNT - 1)
  IN  <<[kind |-> "header", text |-> "AUDITDOG COMMAND EXPLANATION"],
        [kind |-> "command", text |-> cmd, cached |-> cached],
        [kind |-> "summary", text |-> SUMMARY],
        [kind |-> "banner", text |-> Banner(RISK_LEVEL)]>>
        \o [j \in 1..Len(indices) |->
              [kind    |-> "section",
               title   |-> JqSections(f)[indices[j] + 1].title,
               content |-> JqSections(f)[indices[j] + 1].content]]

InitRender ==
  /\ pc = "render"
  /\ run = 1
  /\ now = 0
  /\ cacheFile = JsonCache(EmptyDoc) /\ cacheMtime = 0
  /\ COMMAND = <<"a">> /\ DEBUG = FALSE
  /\ CMD = CmdOf(COMMAND) /\ ARGS = ArgsOf(COMMAND) /\ CACHE_KEY = CacheKeyOf(COMMAND)
  /\ TEMP_JSON = "payload"
  /\ TEMP_RESPONSE \in {JsonFile(MkBody("object", Required, "Lists files", level, secs)) :
                          level \in RiskLevels, secs \in SectionLists}
  /\ SPINNER_PID = 0 /\ spinners = {} /\ cursorHidden = FALSE
  /\ RETRY_COUNT = 0 /\ RETRY_DELAY = RETRY_DELAY_INITIAL /\ CURL_STATUS = 0
  /\ SUCCESS = TRUE /\ CACHE_HIT \in BOOLEAN /\ CONFIRM = <<>>
  /\ exitCode = -1
  /\ attempts = 0 /\ delays = <<>> /\ executed = <<>> /\ prompts = <<>>
  /\ rendered = <<>> /\ inserts = 0 /\ errorsShown = 0 /\ fetched = <<>>
  /\ storeAtStart = [file |-> cacheFile, mtime |-> cacheMtime]
  /\ storeAtCheck = [file |-> cacheFile, mtime |-> cacheMtime]
  /\ ScreenIdle
  /\ PairIdle /\ StoreIdle /\ InsertIdle /\ TwinIdle /\ SigIdle /\ TableIdle
  /\ HookIdle /\ SharedIdle

\* Lines 348-388, printing line after line.
Display ==
  /\ pc = "render"
  /\ screen' = DisplayLines(COMMAND, CACHE_HIT, TEMP_RESPONSE)
  /\ pc' = "confirm"
  /\ UNCHANGED <<run, now, fileVars, inputVars, keyVars, tempVars, spinVars, loopVars,
                 flagVars, CONFIRM, exitCode, histVars, pairVars, storeVars, insertVars,
                 twinVars, sigVars, tableVars, hookVars, procs>>

NextRender == Display

SpecRender == InitRender /\ [][NextRender]_vars

\* The banner each of the five levels is to get.
LevelBanners ==
  {<<"critical", "RISK LEVEL: CRITICAL">>, <<"high", "RISK LEVEL: HIGH">>,
   <<"medium", "RISK LEVEL: MEDIUM">>, <<"low", "RISK LEVEL: LOW">>,
   <<"minimal", "RISK LEVEL: MINIMAL">>}

\* C25: the display prints, after the summary, the banner of the record's
\* risk level: one banner for each of critical, high, medium, low and
\* minimal, no two of them the same, and the UNKNOWN banner, different from
\* the five, for every other value; then every section of the record once,
\* in the order of the record.
C25_BannerAndSections ==
  (pc = "confirm" /\ screen # <<>>) =>
    LET level == TEMP_RESPONSE.body.risk_level
        secs == TEMP_RESPONSE.body.sections
    IN  /\ \A p \in LevelBanners, q \in LevelBanners : (p[1] # q[1]) => (p[2] # q[2])
        /\ \A p \in LevelBanners : p[2] # "RISK LEVEL: UNKNOWN"
        /\ Len(screen) = 4 + Len(secs)
        /\ screen[3] = [kind |-> "summary", text |-> TEMP_RESPONSE.body.summary]
        /\ screen[4].kind = "banner"
        /\ \A p \in LevelBanners : (level = p[1]) => (screen[4].text = p[2])
        /\ (\A p \in LevelBanners : level # p[1]) => (screen[4].text = "RISK LEVEL: UNKNOWN")
        /\ \A i \in 1..Len(secs) :
             screen[4 + i] = [kind |-> "section", title |-> secs[i].title,
                              content |-> secs[i].content]

\* A record of level "unknown" with two different sections has been displayed.
C25_Witness ==
  /\ pc = "confirm"
  /\ TEMP_RESPONSE.body.risk_level = "unknown"
  /\ TEMP_RESPONSE.body.sections = <<Section2, Section1>>
  /\ Len(screen) = 6
  /\ screen[4].text = "RISK LEVEL: UNKNOWN"

(***************************************************************************)
(* The event tables of the dashboard: SSHEvents, CommandExecutions,        *)
(* PrivilegeEscalations and BruteForceAttempts render the events, loading  *)
(* and error their hook exposes.                                           *)
(***************************************************************************)
MaxEvents == 2

Tables == {"SSHEvents", "CommandExecutions", "PrivilegeEscalations", "BruteForceAttempts"}

\* The literal of the "nothing found" row of each component.
NoneFound(t) ==
  CASE t = "SSHEvents" -> "No SSH events found"
    [] t = "CommandExecutions" -> "No command execution events found"
    [] t = "PrivilegeEscalations" -> "No privilege escalation events found"
    [] t = "BruteForceAttempts" -> "No brute force attempts found"

\* useState(null) and setError(null)
Null == "null"

\* What the hooks set error to: null, or err.message || 'Failed to fetch ...',
\* which is never the empty string.
ErrorValues == {Null, "Failed to fetch data", "Network Error"}

EventLists == SeqsUpTo({"e1", "e2"}, MaxEvents)

\* JavaScript truthiness of an error value, as {error && ...} tests it.
Truthy(v) == v \notin {Null, ""}

\* Variant: the test for an empty list made before the test of loading.
TableViewEmptyFirst(t, ev, ld, err) ==
  [errorLine |-> IF Truthy(err) THEN <<"Error: ", err>> ELSE <<>>,
   body      |-> IF Len(ev) = 0 THEN <<[kind |-> "message", text |-> NoneFound(t)]>>
                 ELSE IF ld THEN <<[kind |-> "message", text |-> "Loading..."]>>
                 ELSE [i \in 1..Len(ev) |-> [kind |-> "event", text |-> ev[i]]]]

\* {error && <Typography>Error: {error}</Typography>} and the <TableBody>:
\* loading ? Loading... : events.length === 0 ? No ... found : events.map(row)
TableView(t, ev, ld, err) ==
  [errorLine |-> IF Truthy(err) THEN <<"Error: ", err>> ELSE <<>>,
   body      |-> IF ld THEN <<[kind |-> "message", text |-> "Loading..."]>>
                 ELSE IF Len(ev) = 0 THEN <<[kind |-> "message", text |-> NoneFound(t)]>>
                 ELSE [i \in 1..Len(ev) |-> [kind |-> "event", text |-> ev[i]]]]

\* The component about to be mounted: the hook's state is what its useState
\* calls start with.
InitTable ==
  /\ pc = "mount"
  /\ table \in Tables
  /\ events = <<>> /\ loading = TRUE /\ error = Null
  /\ view = <<>>
  /\ run = 0 /\ now = 0
  /\ cacheFile = MissingCache /\ cacheMtime = 0
  /\ COMMAND = <<>> /\ DEBUG = FALSE
  /\ ProcessAtRest
  /\ storeAtStart = [file |-> MissingCache, mtime |-> 0]
  /\ ScreenIdle
  /\ PairIdle /\ StoreIdle /\ InsertIdle /\ TwinIdle /\ SigIdle
  /\ HookIdle /\ SharedIdle

tableFrame ==
  <<table, run, now, fileVars, inputVars, keyVars, tempVars, spinVars, loopVars, flagVars,
    CONFIRM, exitCode, histVars, pairVars, storeVars, insertVars, twinVars, sigVars,
    screen, hookVars, procs>>

\* First render.
Mount ==
  /\ pc = "mount"
  /\ view' = TableView(table, events, loading, error)
  /\ pc' = "shown"
  /\ UNCHANGED <<events, loading, error, tableFrame>>

\* The hook's setEvents, setLoading and setError change what it exposes, and
\* the component renders again.
Rerender ==
  /\ pc = "shown"
  /\ \E ev \in EventLists, ld \in BOOLEAN, err \in ErrorValues :
       /\ <<ev, ld, err>> # <<events, loading, error>>
       /\ events' = ev /\ loading' = ld /\ error' = err
       /\ view' = TableView(table, ev, ld, err)
  /\ UNCHANGED <<pc, tableFrame>>

NextTable == Mount \/ Rerender

SpecTable == InitTable /\ [][NextTable]_vars

\* C26: the body of an event table shows "Loading..." whenever loading is
\* true, the table's "No ... found" message when loading is false and there
\* are no events, and otherwise one row per event, in order; the line
\* "Error: <message>" is shown exactly when error is set, whatever the body
\* shows.
C26_TableBodyAndErrorLine ==
  pc = "shown" =>
    /\ loading => view.body = <<[kind |-> "message", text |-> "Loading..."]>>
    /\ (~loading /\ events = <<>>) =>
         view.body = <<[kind |-> "message", text |-> NoneFound(table)]>>
    /\ (~loading /\ events # <<>>) =>
         /\ Len(view.body) = Len(events)
         /\ \A i \in 1..Len(events) : view.body[i] = [kind |-> "event", text |-> events[i]]
    /\ (error = Null) <=> (view.errorLine = <<>>)
    /\ (error # Null) => view.errorLine = <<"Error: ", error>>

\* A table that is loading with no events and an error set shows both
\* "Loading..." and the error line.
C26_Witness ==
  /\ pc = "shown"
  /\ loading /\ events = <<>> /\ error = "Network Error"
  /\ view.body[1].text = "Loading..."
  /\ view.errorLine = <<"Error: ", "Network Error">>

\* Positions of the script between a start_spinner and its stop_spinner:
\* around get_from_cache, around curl and around add_to_cache.
SpinnerPhases == {"hit-get", "hit-stop", "curl", "curled", "caching", "cached"}

\* C31: a spinner is alive only while the script is in a network attempt, in
\* the cache read of a hit or in the cache write of a success; none is alive
\* before a retry delay is slept, while the explanation is displayed, at
\* either prompt, while the command is executed or once the script is over.
C31_SpinnerOnlyWhileBlocked ==
  /\ spinners # {} => pc \in SpinnerPhases
  /\ pc \in {"backoff", "render", "confirm", "failed", "run-anyway", "execute", "done"}
       => spinners = {}

\* After a failed first attempt, during which a spinner was alive, the script
\* is about to sleep the retry delay and no spinner is alive.
C31_Witness ==
  /\ pc = "backoff"
  /\ attempts = 1
  /\ SPINNER_PID = 0
  /\ spinners = {}
  /\ signals = 0

(***************************************************************************)
(* One invocation under fairness.  The script is one sequential process:   *)
(* its next command always runs.  curl returns within TIMEOUT seconds      *)
(* (-m "$TIMEOUT"), sleep within RETRY_DELAY seconds; read returns when    *)
(* the user answers or closes the input, and eval when the command         *)
(* returns, which the specification takes for granted.                     *)
(***************************************************************************)
NextLive ==
  \/ Startup
  \/ ParseCommand
  \/ CacheCheck
  \/ CacheHit
  \/ CacheMiss
  \/ LoopTest
  \/ Backoff
  \/ Attempt
  \/ AttemptFailed
  \/ AttemptSucceeded
  \/ AfterLoop
  \/ RunAnywayPrompt
  \/ RunAnyway
  \/ ExitFailure
  \/ Render
  \/ ConfirmExecute
  \/ Execute
  \/ ExitSuccess

\* The invocations of Init with a command line of at most three characters
\* and a cache file that was written just before.
InitLive == Init /\ Len(COMMAND) <= 3 /\ now = 0

SpecLive == InitLive /\ [][NextLive]_vars /\ WF_vars(NextLive)

\* C32: an invocation makes at most MAX_RETRIES attempts, sleeps fewer delays
\* than it makes attempts, and reaches the end of the script.
C32_Terminates ==
  /\ [](attempts <= MAX_RETRIES /\ Len(delays) <= attempts)
  /\ <>(pc = "done")

\* The script has ended on the exhausted path, after MAX_RETRIES attempts and
\* four delays, with the command run anyway.
C32_Witness ==
  /\ pc = "done"
  /\ attempts = MAX_RETRIES
  /\ delays = <<1, 2, 4, 8>>
  /\ exitCode = 1
  /\ executed = <<COMMAND>>

(***************************************************************************)
(* Two invocations of the script at once on one cache file.  Each runs     *)
(* check_cache and, on a miss, the commands of add_to_cache with a scratch *)
(* file of its own; the commands of the two interleave in every order.     *)
(* A cache file that a reader finds emptied or half written by the         *)
(* redirection of line 199 is no JSON for jq, like a zero-length file.     *)
(* Each command's write is taken to be complete before the next command.   *)
(***************************************************************************)
MaxInvocationsEach == 2

Procs == {1, 2}

\* Keys before, among and after the keys k00..k99 in sort order.
SharedKeys == {<<"0">>, <<"k", "5">>, <<"x">>}

AlmostFullDoc == [k \in DOMAIN FullDoc \ {<<"k", "0", "0">>} |-> LowRecord]

SharedCaches == {JsonCache(SmallDoc), JsonCache(AlmostFullDoc), JsonCache(FullDoc)}

InitShared ==
  /\ pc = "shared"
  /\ run = 0 /\ now = 0
  /\ cacheFile \in SharedCaches /\ cacheMtime = 0
  /\ COMMAND = <<>> /\ DEBUG = FALSE
  /\ ProcessAtRest
  /\ storeAtStart = [file |-> cacheFile, mtime |-> 0]
  /\ procs = [p \in Procs |-> [pc |-> "idle", key |-> <<>>, tmp |-> MissingCache, runs |-> 0]]
  /\ PairIdle /\ StoreIdle /\ InsertIdle /\ TwinIdle /\ SigIdle /\ ScreenIdle /\ TableIdle
  /\ HookIdle

sharedFrame ==
  <<pc, run, now, cacheMtime, inputVars, keyVars, tempVars, spinVars, loopVars, flagVars,
    CONFIRM, exitCode, histVars, pairVars, storeVars, insertVars, twinVars, sigVars,
    screen, tableVars, hookVars>>

\* An invocation starts: CACHE_KEY is derived from its command line.
SharedInvoke ==
  \E p \in Procs, k \in SharedKeys :
    /\ procs[p].pc = "idle"
    /\ procs[p].runs < MaxInvocationsEach
    /\ procs' = [procs EXCEPT ![p] = [pc |-> "check", key |-> k, tmp |-> MissingCache,
                                      runs |-> @.runs + 1]]
    /\ UNCHANGED <<cacheFile, sharedFrame>>

\* check_cache: on a hit the record is read and the invocation inserts
\* nothing; on a miss it goes on to the insertion of the fetched record.
SharedLookup ==
  \E p \in Procs :
    /\ procs[p].pc = "check"
    /\ procs' = [procs EXCEPT ![p].pc =
                   IF CheckCache(cacheFile, procs[p].key) THEN "idle" ELSE "assign"]
    /\ UNCHANGED <<cacheFile, sharedFrame>>

\* jq --arg key ... '.[$key] = $content[0]' "$CACHE_FILE" > "$tmp_cache_file"
SharedAssign ==
  \E p \in Procs :
    /\ procs[p].pc = "assign"
    /\ procs' = [procs EXCEPT ![p].tmp = JqAssign(cacheFile, procs[p].key, JsonFile(HighRecord)),
                              ![p].pc = "size"]
    /\ UNCHANGED <<cacheFile, sharedFrame>>

\* Variant: the bound tested one entry too late.
SharedSizeOffByOne ==
  \E p \in Procs :
    /\ procs[p].pc = "size"
    /\ procs' = [procs EXCEPT ![p].pc =
                   IF /\ procs[p].tmp.kind = "json"
                      /\ Cardinality(DOMAIN procs[p].tmp.doc) > MAX_CACHE_ENTRIES + 1
                   THEN "truncate" ELSE "mv"]
    /\ UNCHANGED <<cacheFile, sharedFrame>>

\* CACHE_SIZE=$(jq 'length' "$tmp_cache_file"); [ "$CACHE_SIZE" -gt ... ]
SharedSize ==
  \E p \in Procs :
    /\ procs[p].pc = "size"
    /\ procs' = [procs EXCEPT ![p].pc =
                   IF /\ procs[p].tmp.kind = "json"
                      /\ Cardinality(DOMAIN procs[p].tmp.doc) > MAX_CACHE_ENTRIES
                   THEN "truncate" ELSE "mv"]
    /\ UNCHANGED <<cacheFile, sharedFrame>>

\* ... > "$CACHE_FILE": the redirection empties the cache file.
SharedTruncate ==
  \E p \in Procs :
    /\ procs[p].pc = "truncate"
    /\ cacheFile' = BlankCache
    /\ procs' = [procs EXCEPT ![p].pc = "write"]
    /\ UNCHANGED sharedFrame

\* jq 'to_entries | sort_by(.key) | .[1:] | from_entries' "$tmp_cache_file";
\* rm -f "$tmp_cache_file"
SharedWrite ==
  \E p \in Procs :
    /\ procs[p].pc = "write"
    /\ cacheFile' = JsonCache(DropSmallest(procs[p].tmp.doc))
    /\ procs' = [procs EXCEPT ![p].pc = "idle", ![p].tmp = MissingCache]
    /\ UNCHANGED sharedFrame

\* mv "$tmp_cache_file" "$CACHE_FILE"
SharedMove ==
  \E p \in Procs :
    /\ procs[p].pc = "mv"
    /\ cacheFile' = procs[p].tmp
    /\ procs' = [procs EXCEPT ![p].pc = "idle", ![p].tmp = MissingCache]
    /\ UNCHANGED sharedFrame

NextShared ==
  \/ SharedInvoke
  \/ SharedLookup
  \/ SharedAssign
  \/ SharedSize
  \/ SharedTruncate
  \/ SharedWrite
  \/ SharedMove

SpecShared == InitShared /\ [][NextShared]_vars

\* C33: with two invocations looking up and inserting at once, in whatever
\* order their commands interleave, the cache file never holds more than
\* MAX_CACHE_ENTRIES entries when it started with no more.
C33_BoundUnderInterleaving ==
  StoreSize(cacheFile) <= MAX_CACHE_ENTRIES

\* Both invocations have built a scratch document of 101 entries from the
\* same full store and both have emptied the cache file for their eviction.
C33_Witness ==
  /\ procs[1].pc = "write" /\ procs[2].pc = "write"
  /\ procs[1].key # procs[2].key
  /\ Cardinality(DOMAIN procs[1].tmp.doc) = MAX_CACHE_ENTRIES + 1
  /\ Cardinality(DOMAIN procs[2].tmp.doc) = MAX_CACHE_ENTRIES + 1
  /\ cacheFile = BlankCache

(***************************************************************************)
(* The data-fetching hooks useSSHEvents, useCommandExecutions and          *)
(* useBruteForceAttempts.  fetchEvents runs on mount, again whenever       *)
(* filters, page or pageSize change, and on refetch; nothing cancels a     *)
(* request that is still pending and nothing tells its response from a     *)
(* later one's.  The code after the await runs to completion, so the       *)
(* settlement of a request is one step.  pending holds the requests in     *)
(* flight, settled the settlements so far in the order of arrival.         *)
(***************************************************************************)
MaxFetches == 3

Hooks == {"SSHEvents", "CommandExecutions", "BruteForceAttempts"}

\* The literal after err.message || in each hook.
FailedToFetch(h) ==
  CASE h = "SSHEvents" -> "Failed to fetch SSH events"
    [] h = "CommandExecutions" -> "Failed to fetch command executions"
    [] h = "BruteForceAttempts" -> "Failed to fetch brute force attempts"

\* response.data: a list of events, or null.
HookResponses ==
  {[null |-> TRUE, list |-> <<>>]}
    \cup {[null |-> FALSE, list |-> l] : l \in {<<>>, <<"e1">>, <<"e1", "e2">>}}

\* err.message: absent, empty or a text.
HookFailures == {Null, "", "Network Error"}

\* data || []
DataOrEmpty(data) == IF data.null THEN <<>> ELSE data.list

\* err.message || 'Failed to fetch ...'
MessageOrDefault(h, msg) == IF Truthy(msg) THEN msg ELSE FailedToFetch(h)

InitHook ==
  /\ pc = "hook"
  /\ table \in Hooks
  /\ events = <<>> /\ loading = TRUE /\ error = Null
  /\ view = <<>>
  /\ pending = {} /\ issued = 0 /\ settled = <<>>
  /\ run = 0 /\ now = 0
  /\ cacheFile = MissingCache /\ cacheMtime = 0
  /\ COMMAND = <<>> /\ DEBUG = FALSE
  /\ ProcessAtRest
  /\ storeAtStart = [file |-> MissingCache, mtime |-> 0]
  /\ PairIdle /\ StoreIdle /\ InsertIdle /\ TwinIdle /\ SigIdle /\ ScreenIdle
  /\ SharedIdle

hookFrame ==
  <<pc, table, view, run, now, fileVars, inputVars, keyVars, tempVars, spinVars, loopVars,
    flagVars, CONFIRM, exitCode, histVars, pairVars, storeVars, insertVars, twinVars,
    sigVars, screen, procs>>

\* fetchEvents up to the await: setLoading(true) and the request is sent.
FetchStart ==
  /\ issued < MaxFetches
  /\ loading' = TRUE
  /\ issued' = issued + 1
  /\ pending' = {[f EXCEPT !.alone = FALSE] : f \in pending}
                  \cup {[id |-> issued + 1, before |-> events, alone |-> pending = {}]}
  /\ UNCHANGED <<events, error, settled, hookFrame>>

Settlement(f, ok, data) ==
  [id |-> f.id, ok |-> ok, data |-> data, before |-> f.before, prior |-> events,
   alone |-> f.alone, seen |-> issued]

\* The request resolves: setEvents, setError(null), then finally.
SettleSuccess ==
  \E f \in pending, data \in HookResponses :
    /\ events' = DataOrEmpty(data)
    /\ error' = Null
    /\ loading' = FALSE
    /\ pending' = pending \ {f}
    /\ settled' = Append(settled, Settlement(f, TRUE, data))
    /\ UNCHANGED <<issued, hookFrame>>

\* Variant: a failure that also empties the list.
SettleFailureClearing ==
  \E f \in pending, msg \in HookFailures :
    /\ error' = MessageOrDefault(table, msg)
    /\ loading' = FALSE
    /\ events' = <<>>
    /\ pending' = pending \ {f}
    /\ settled' = Append(settled, Settlement(f, FALSE, msg))
    /\ UNCHANGED <<issued, hookFrame>>

\* The request rejects: catch sets the message, then finally.
SettleFailure ==
  \E f \in pending, msg \in HookFailures :
    /\ error' = MessageOrDefault(table, msg)
    /\ loading' = FALSE
    /\ pending' = pending \ {f}
    /\ settled' = Append(settled, Settlement(f, FALSE, msg))
    /\ UNCHANGED <<events, issued, hookFrame>>

NextHook ==
  \/ FetchStart
  \/ SettleSuccess
  \/ SettleFailure

SpecHook == InitHook /\ [][NextHook]_vars

LastSettled == settled[Len(settled)]

\* C34: loading is true from the start of a fetch until a fetch settles and
\* false after every settlement; after a success events is the returned
\* list (the empty list when nothing was returned) and error is null; after
\* a failure error is a non-empty message and events is what it was before
\* the failure, which for a fetch that ran alone is what it was at its start.
C34_FetchOutcome ==
  /\ pc = "hook" /\ (settled = <<>> \/ LastSettled.seen < issued) => loading
  /\ pc = "hook" /\ settled # <<>> /\ LastSettled.seen = issued =>
       LET s == LastSettled
       IN  /\ ~loading
           /\ s.ok => events = DataOrEmpty(s.data) /\ error = Null
           /\ ~s.ok =>
                /\ error # Null /\ error # ""
                /\ error \in {s.data, FailedToFetch(table)}
                /\ events = s.prior
                /\ s.alone => events = s.before

\* A fetch returned a list, and the next one, run alone, failed with no
\* message of its own: the list is still there beside the default message.
C34_Witness ==
  /\ Len(settled) = 2 /\ pending = {}
  /\ settled[1].ok /\ settled[1].data = [null |-> FALSE, list |-> <<"e1", "e2">>]
  /\ ~settled[2].ok /\ settled[2].alone /\ settled[2].data = ""
  /\ events = <<"e1", "e2">> /\ error = FailedToFetch(table) /\ ~loading

\* The settlement of the request that was issued last.
NewestSettled == CHOOSE s \in {settled[i] : i \in 1..Len(settled)} : s.id = issued

\* C35: when fetches overlapped and all have settled, events and error
\* are those of the request issued last, in whatever order the responses
\* arrived; and loading is false only when no request is pending.
C35_NewestRequestWins ==
  /\ pc = "hook" /\ pending = {} /\ settled # <<>> /\ ~NewestSettled.alone =>
       LET s == NewestSettled
       IN  /\ s.ok => events = DataOrEmpty(s.data) /\ error = Null
           /\ ~s.ok => error = MessageOrDefault(table, s.data)
  /\ pc = "hook" /\ ~loading => pending = {}

====
